---- MODULE Spec2Model ----
(***************************************************************************)
(* A model of src/src/pbrt/bxdfs.cpp: the tensor-file loader               *)
(* (Tensor::Tensor), the measured-data resource builder                    *)
(* (MeasuredBxDFData::Create), the process-wide cache                      *)
(* (MeasuredBxDF::BRDFDataFromFile) and the sample filter handling of the  *)
(* Sample_f methods of the dielectric, hair and measured models.           *)
(*                                                                         *)
(* The module holds several specifications over one set of variables; a    *)
(* specification keeps the variables of the other parts at their idle      *)
(* values.                                                                 *)
(*   SpecCache   threads calling BRDFDataFromFile concurrently             *)
(*   SpecSeq     the same calls, one at a time                             *)
(*   SpecCreate  MeasuredBxDFData::Create on a loaded field table          *)
(*   SpecTensor  Tensor::Tensor on the bytes of a file                     *)
(*   SpecBxDF    the Sample_f methods                                      *)
(*   SpecRho     the reflectance estimators BxDF::rho                      *)
(*   SpecLobes   the lobes of HairBxDF and MorphoBSDF                      *)
(***************************************************************************)
EXTENDS Integers, Sequences, FiniteSets, TLC

VARIABLES
    \* ---- the cache (BRDFDataFromFile) ----
    disk,        \* path -> what the file at that path holds
    loadedData,  \* the static std::map: a function whose DOMAIN is its keys
    pc,          \* thread -> position inside BRDFDataFromFile
    fname,       \* thread -> the filename argument of its call
    made,        \* thread -> the pointer Create returned to it, not yet stored
    creates,     \* path -> how many times Create ran for it
    got,         \* path -> sequence of pointers returned to callers, in order
    nextPtr,     \* the next address alloc.new_object hands out
    calls,       \* calls started so far
    alive,       \* FALSE once ErrorExit or a failed CHECK ended the process
    \* ---- MeasuredBxDFData::Create ----
    cfile,       \* the loaded tensor file Create works on
    cres,        \* the outcome of Create, or NotRun
    \* ---- Tensor::Tensor ----
    bytes,       \* the bytes of the file
    desc,        \* what the writer meant the file to hold
    stage,       \* position inside the constructor
    pos,         \* the stream position of `file`
    m_size,      \* Tensor::m_size
    n_fields,    \* the header's field count
    idx,         \* the loop variable i
    rec,         \* the locals of the current record
    m_fields,    \* Tensor::m_fields: a function whose DOMAIN is its keys
    closes,      \* how many times fclose(file) ran
    err,         \* the message of the ASSERT that ended the load, or NoErr
    \* ---- Sample_f, f, PDF ----
    call,        \* the last Sample_f call: variant and arguments
    result,      \* what it returned
    density,     \* what PDF returned for the (wo, wi) of that sample
    query,       \* a call of f, PDF or ApPDF: variant and arguments
    answer,      \* what it returned
    \* ---- BxDF::rho ----
    rho,         \* a call of rho: its arguments, loop variable and sum
    \* ---- the lobes of HairBxDF and MorphoBSDF ----
    lobe,        \* a call of f, Sample_f or PDF: model, angles, drawn lobe
    used         \* the tilts, helper arguments and table indices it used

cacheVars  == <<disk, loadedData, pc, fname, made, creates, got, nextPtr, calls, alive>>
createVars == <<cfile, cres>>
tensorVars == <<bytes, desc, stage, pos, m_size, n_fields, idx, rec, m_fields, closes, err>>
sampleVars == <<call, result, density, query, answer>>
rhoVars    == <<rho>>
lobeVars   == <<lobe, used>>
bxdfVars   == <<sampleVars, rhoVars, lobeVars>>
vars       == <<cacheVars, createVars, tensorVars, bxdfVars>>

(***************************************************************************)
(* Tensor::Type                                                            *)
(***************************************************************************)
Invalid == 0
UInt8   == 1
Int8    == 2
UInt16  == 3
Int16   == 4
UInt32  == 5
Int32   == 6
UInt64  == 7
Int64   == 8
Float16 == 9
Float32 == 10
Float64 == 11

type_size(value) ==
    CASE value = Invalid -> 0
      [] value = UInt8   -> 1
      [] value = Int8    -> 1
      [] value = UInt16  -> 2
      [] value = Int16   -> 2
      [] value = UInt32  -> 4
      [] value = Int32   -> 4
      [] value = UInt64  -> 8
      [] value = Int64   -> 8
      [] value = Float16 -> 2
      [] value = Float32 -> 4
      [] value = Float64 -> 8
      [] OTHER           -> 0

(***************************************************************************)
(* A loaded tensor file, as MeasuredBxDFData::Create sees it:              *)
(*   loads      FALSE when Tensor::Tensor ends in ErrorExit                *)
(*   fields     m_fields: name -> [dtype, shape]                           *)
(*   reduction  rint(2*Pi / (phi_i[last] - phi_i[0])) of the phi_i payload *)
(***************************************************************************)
has_field(tf, name) == name \in DOMAIN tf

\* shape[j] of the source, whose indices start at 0
Dim(f, j) == f.shape[j + 1]

Rank(f) == Len(f.shape)

\* The names Create looks up, in the order of its ten tf.field() calls.
LookedUp ==
    <<"theta_i", "phi_i", "ndf", "sigma", "vndf", "spectra", "luminance",
      "wavelengths", "description", "jacobian">>

LookedUpSet == {LookedUp[k] : k \in 1..Len(LookedUp)}

\* Tensor::field's CHECK(it != m_fields.end()) fails for one of the lookups.
FieldCheckFails(tf) == \E n \in LookedUpSet : ~has_field(tf, n)

\* The mutant of StructureOK: the test jacobian.shape[0] == 1 is left out.
StructureOK_NoJacobianDim(tf) ==
    LET description == tf["description"]
        theta_i     == tf["theta_i"]
        phi_i       == tf["phi_i"]
        wavelengths == tf["wavelengths"]
        ndf         == tf["ndf"]
        sigma       == tf["sigma"]
        vndf        == tf["vndf"]
        luminance   == tf["luminance"]
        spectra     == tf["spectra"]
        jacobian    == tf["jacobian"]
    IN  /\ Rank(description) = 1 /\ description.dtype = UInt8
        /\ Rank(theta_i) = 1 /\ theta_i.dtype = Float32
        /\ Rank(phi_i) = 1 /\ phi_i.dtype = Float32
        /\ Rank(wavelengths) = 1 /\ wavelengths.dtype = Float32
        /\ Rank(ndf) = 2 /\ ndf.dtype = Float32
        /\ Rank(sigma) = 2 /\ sigma.dtype = Float32
        /\ Rank(vndf) = 4 /\ vndf.dtype = Float32
        /\ Dim(vndf, 0) = Dim(phi_i, 0) /\ Dim(vndf, 1) = Dim(theta_i, 0)
        /\ Rank(luminance) = 4 /\ luminance.dtype = Float32
        /\ Dim(luminance, 0) = Dim(phi_i, 0)
        /\ Dim(luminance, 1) = Dim(theta_i, 0)
        /\ Dim(luminance, 2) = Dim(luminance, 3)
        /\ spectra.dtype = Float32 /\ Rank(spectra) = 5
        /\ Dim(spectra, 0) = Dim(phi_i, 0) /\ Dim(spectra, 1) = Dim(theta_i, 0)
        /\ Dim(spectra, 2) = Dim(wavelengths, 0)
        /\ Dim(spectra, 3) = Dim(spectra, 4)
        /\ Dim(luminance, 2) = Dim(spectra, 3)
        /\ Dim(luminance, 3) = Dim(spectra, 4)
        /\ Rank(jacobian) = 1
        /\ jacobian.dtype = UInt8

\* The condition of Create's `if (!(...))`, conjunct by conjunct and in the
\* source's order (&& and /\ both stop at the first false conjunct).
StructureOK(tf) ==
    LET description == tf["description"]
        theta_i     == tf["theta_i"]
        phi_i       == tf["phi_i"]
        wavelengths == tf["wavelengths"]
        ndf         == tf["ndf"]
        sigma       == tf["sigma"]
        vndf        == tf["vndf"]
        luminance   == tf["luminance"]
        spectra     == tf["spectra"]
        jacobian    == tf["jacobian"]
    IN  /\ Rank(description) = 1 /\ description.dtype = UInt8
        /\ Rank(theta_i) = 1 /\ theta_i.dtype = Float32
        /\ Rank(phi_i) = 1 /\ phi_i.dtype = Float32
        /\ Rank(wavelengths) = 1 /\ wavelengths.dtype = Float32
        /\ Rank(ndf) = 2 /\ ndf.dtype = Float32
        /\ Rank(sigma) = 2 /\ sigma.dtype = Float32
        /\ Rank(vndf) = 4 /\ vndf.dtype = Float32
        /\ Dim(vndf, 0) = Dim(phi_i, 0) /\ Dim(vndf, 1) = Dim(theta_i, 0)
        /\ Rank(luminance) = 4 /\ luminance.dtype = Float32
        /\ Dim(luminance, 0) = Dim(phi_i, 0)
        /\ Dim(luminance, 1) = Dim(theta_i, 0)
        /\ Dim(luminance, 2) = Dim(luminance, 3)
        /\ spectra.dtype = Float32 /\ Rank(spectra) = 5
        /\ Dim(spectra, 0) = Dim(phi_i, 0) /\ Dim(spectra, 1) = Dim(theta_i, 0)
        /\ Dim(spectra, 2) = Dim(wavelengths, 0)
        /\ Dim(spectra, 3) = Dim(spectra, 4)
        /\ Dim(luminance, 2) = Dim(spectra, 3)
        /\ Dim(luminance, 3) = Dim(spectra, 4)
        /\ Rank(jacobian) = 1 /\ Dim(jacobian, 0) = 1
        /\ jacobian.dtype = UInt8

\* The five interpolants Create builds, in the order it builds them.
Interpolants == {"ndf", "sigma", "vndf", "luminance", "spectra"}

NotRun == [kind |-> "not_run", diagnostic |-> FALSE, allocated |-> FALSE,
           built |-> {}, isotropic |-> FALSE]

\* The mutant of Create: isotropic is phi_i.shape[0] < 2.
Create_IsotropicBelow2(file) ==
    IF ~file.loads
    THEN [kind |-> "error_exit", diagnostic |-> TRUE, allocated |-> FALSE,
          built |-> {}, isotropic |-> FALSE]
    ELSE IF FieldCheckFails(file.fields)
    THEN [kind |-> "check_abort", diagnostic |-> FALSE, allocated |-> FALSE,
          built |-> {}, isotropic |-> FALSE]
    ELSE IF ~StructureOK(file.fields)
    THEN [kind |-> "null", diagnostic |-> TRUE, allocated |-> FALSE,
          built |-> {}, isotropic |-> FALSE]
    ELSE LET isotropic == Dim(file.fields["phi_i"], 0) < 2
         IN  IF ~isotropic /\ file.reduction # 1
             THEN [kind |-> "error_exit", diagnostic |-> TRUE, allocated |-> TRUE,
                   built |-> {}, isotropic |-> isotropic]
             ELSE [kind |-> "resource", diagnostic |-> FALSE, allocated |-> TRUE,
                   built |-> Interpolants, isotropic |-> isotropic]

(***************************************************************************)
(* MeasuredBxDFData::Create.  kind is how the call ends:                   *)
(*   "error_exit"   ErrorExit: the loader's, or the reduction test's       *)
(*   "check_abort"  a failed CHECK in Tensor::field                        *)
(*   "null"         Error(...) and return nullptr                          *)
(*   "resource"     return brdf                                            *)
(* allocated: alloc.new_object ran; built: the interpolants constructed.   *)
(***************************************************************************)
Create(file) ==
    IF ~file.loads
    THEN [kind |-> "error_exit", diagnostic |-> TRUE, allocated |-> FALSE,
          built |-> {}, isotropic |-> FALSE]
    ELSE IF FieldCheckFails(file.fields)
    THEN [kind |-> "check_abort", diagnostic |-> FALSE, allocated |-> FALSE,
          built |-> {}, isotropic |-> FALSE]
    ELSE IF ~StructureOK(file.fields)
    THEN [kind |-> "null", diagnostic |-> TRUE, allocated |-> FALSE,
          built |-> {}, isotropic |-> FALSE]
    ELSE LET isotropic == Dim(file.fields["phi_i"], 0) <= 2
         IN  IF ~isotropic /\ file.reduction # 1
             THEN [kind |-> "error_exit", diagnostic |-> TRUE, allocated |-> TRUE,
                   built |-> {}, isotropic |-> isotropic]
             ELSE [kind |-> "resource", diagnostic |-> FALSE, allocated |-> TRUE,
                   built |-> Interpolants, isotropic |-> isotropic]

(***************************************************************************)
(* The loaded files MeasuredBxDFData::Create is run on: a table that       *)
(* passes every test of Create, and the tables one edit away from it (a   *)
(* field removed, a dtype changed, a dimension changed, dropped or         *)
(* appended).                                                              *)
(***************************************************************************)
MaxDim   == 3
MaxPhi   == 3

F(dtype, shape) == [dtype |-> dtype, shape |-> shape]

\* A table Create accepts, with nphi samples of phi_i.
GoodTable(nphi) ==
    [n \in LookedUpSet |->
        CASE n = "description" -> F(UInt8, <<2>>)
          [] n = "theta_i"     -> F(Float32, <<2>>)
          [] n = "phi_i"       -> F(Float32, <<nphi>>)
          [] n = "wavelengths" -> F(Float32, <<3>>)
          [] n = "ndf"         -> F(Float32, <<2, 2>>)
          [] n = "sigma"       -> F(Float32, <<2, 2>>)
          [] n = "vndf"        -> F(Float32, <<nphi, 2, 2, 2>>)
          [] n = "luminance"   -> F(Float32, <<nphi, 2, 2, 2>>)
          [] n = "spectra"     -> F(Float32, <<nphi, 2, 3, 2, 2>>)
          [] n = "jacobian"    -> F(UInt8, <<1>>)]

EditDTypes == {UInt8, Float32, Float64}

WithField(tf, n, f) == [m \in DOMAIN tf |-> IF m = n THEN f ELSE tf[m]]

EditsOf(tf) ==
    {[m \in DOMAIN tf \ {n} |-> tf[m]] : n \in DOMAIN tf}
    \cup {WithField(tf, n, F(d, tf[n].shape)) : n \in DOMAIN tf, d \in EditDTypes}
    \cup UNION {{WithField(tf, n, F(tf[n].dtype, [tf[n].shape EXCEPT ![j] = v]))
                    : j \in 1..Rank(tf[n]), v \in 1..MaxDim} : n \in DOMAIN tf}
    \cup {WithField(tf, n, F(tf[n].dtype, SubSeq(tf[n].shape, 1, Rank(tf[n]) - 1)))
             : n \in {m \in DOMAIN tf : Rank(tf[m]) > 0}}
    \cup {WithField(tf, n, F(tf[n].dtype, Append(tf[n].shape, v)))
             : n \in DOMAIN tf, v \in 1..MaxDim}

\* The accepted tables, and every table one edit away from one of them.
Tables ==
    LET good == {GoodTable(nphi) : nphi \in 1..MaxPhi}
    IN  good \cup UNION {EditsOf(tf) : tf \in good}

Reductions == {1, 2}

Loaded(tf, reduction) == [loads |-> TRUE, fields |-> tf, reduction |-> reduction]

\* A file Tensor::Tensor ends in ErrorExit on (unreadable, truncated, ...).
Unloadable == [loads |-> FALSE, fields |-> <<>>, reduction |-> 1]

CreateInputs ==
    {Loaded(tf, r) : tf \in Tables, r \in Reductions} \cup {Unloadable}

(***************************************************************************)
(* The cache: MeasuredBxDF::BRDFDataFromFile, statement by statement.      *)
(***************************************************************************)
MaxCalls == 3
Threads  == {1, 2}
Paths    == {"a.bsdf", "b.bsdf"}
NoName   == ""
NullPtr  == 0

\* What a path's file may hold: kinds of file that end Create in each way.
DiskFiles ==
    { Unloadable,
      Loaded(GoodTable(2), 1),
      Loaded(GoodTable(3), 2),
      Loaded([m \in LookedUpSet \ {"vndf"} |-> GoodTable(2)[m]], 1),
      Loaded(WithField(GoodTable(2), "spectra", F(Float32, <<2, 2, 3, 2>>)), 1) }

idleCache ==
    /\ disk = [p \in Paths |-> Unloadable]
    /\ loadedData = <<>>
    /\ pc = [t \in Threads |-> "idle"]
    /\ fname = [t \in Threads |-> NoName]
    /\ made = [t \in Threads |-> NullPtr]
    /\ creates = [p \in Paths |-> 0]
    /\ got = [p \in Paths |-> <<>>]
    /\ nextPtr = 1
    /\ calls = 0
    /\ alive = TRUE

idleCreate == cfile = Unloadable /\ cres = NotRun

InitCache ==
    /\ disk \in [Paths -> DiskFiles]
    /\ loadedData = <<>>
    /\ pc = [t \in Threads |-> "idle"]
    /\ fname = [t \in Threads |-> NoName]
    /\ made = [t \in Threads |-> NullPtr]
    /\ creates = [p \in Paths |-> 0]
    /\ got = [p \in Paths |-> <<>>]
    /\ nextPtr = 1
    /\ calls = 0
    /\ alive = TRUE

\* A thread enters BRDFDataFromFile(filename).
Call(t, p) ==
    /\ alive /\ pc[t] = "idle" /\ calls < MaxCalls
    /\ pc' = [pc EXCEPT ![t] = "find"]
    /\ fname' = [fname EXCEPT ![t] = p]
    /\ calls' = calls + 1
    /\ UNCHANGED <<disk, loadedData, made, creates, got, nextPtr, alive>>
    /\ UNCHANGED <<createVars, tensorVars, bxdfVars>>

\* The same, when no other call is in progress.
CallAlone(t, p) ==
    /\ \A u \in Threads : pc[u] = "idle"
    /\ Call(t, p)

\* The mutant of Find: the lookup never finds the entry.
FindAlwaysMisses(t) ==
    /\ alive /\ pc[t] = "find"
    /\ pc' = [pc EXCEPT ![t] = "create"]
    /\ UNCHANGED <<disk, loadedData, fname, made, creates, got, nextPtr, calls, alive>>
    /\ UNCHANGED <<createVars, tensorVars, bxdfVars>>

\* The mutant of Find: an entry holding nullptr counts as absent.
FindNullIsMiss(t) ==
    /\ alive /\ pc[t] = "find"
    /\ pc' = [pc EXCEPT ![t] =
                IF fname[t] \in DOMAIN loadedData /\ loadedData[fname[t]] # NullPtr
                THEN "ret" ELSE "create"]
    /\ UNCHANGED <<disk, loadedData, fname, made, creates, got, nextPtr, calls, alive>>
    /\ UNCHANGED <<createVars, tensorVars, bxdfVars>>

\* if (loadedData.find(filename) == loadedData.end())
Find(t) ==
    /\ alive /\ pc[t] = "find"
    /\ pc' = [pc EXCEPT ![t] =
                IF fname[t] \in DOMAIN loadedData THEN "ret" ELSE "create"]
    /\ UNCHANGED <<disk, loadedData, fname, made, creates, got, nextPtr, calls, alive>>
    /\ UNCHANGED <<createVars, tensorVars, bxdfVars>>

\* MeasuredBxDFData::Create(filename, alloc), the right-hand side of the
\* assignment (evaluated before the map's operator[], as C++17 orders it).
CreateStep(t) ==
    /\ alive /\ pc[t] = "create"
    /\ LET r == Create(disk[fname[t]])
       IN  /\ creates' = [creates EXCEPT ![fname[t]] = @ + 1]
           /\ \/ /\ r.kind \in {"error_exit", "check_abort"}
                 /\ alive' = FALSE
                 /\ UNCHANGED <<pc, made, nextPtr>>
              \/ /\ r.kind = "null"
                 /\ made' = [made EXCEPT ![t] = NullPtr]
                 /\ pc' = [pc EXCEPT ![t] = "store"]
                 /\ UNCHANGED <<alive, nextPtr>>
              \/ /\ r.kind = "resource"
                 /\ made' = [made EXCEPT ![t] = nextPtr]
                 /\ nextPtr' = nextPtr + 1
                 /\ pc' = [pc EXCEPT ![t] = "store"]
                 /\ UNCHANGED alive
    /\ UNCHANGED <<disk, loadedData, fname, got, calls>>
    /\ UNCHANGED <<createVars, tensorVars, bxdfVars>>

\* loadedData[filename] = <the pointer Create returned>
Store(t) ==
    /\ alive /\ pc[t] = "store"
    /\ loadedData' = [q \in DOMAIN loadedData \cup {fname[t]} |->
                        IF q = fname[t] THEN made[t] ELSE loadedData[q]]
    /\ pc' = [pc EXCEPT ![t] = "ret"]
    /\ UNCHANGED <<disk, fname, made, creates, got, nextPtr, calls, alive>>
    /\ UNCHANGED <<createVars, tensorVars, bxdfVars>>

\* return loadedData[filename]
Return(t) ==
    /\ alive /\ pc[t] = "ret"
    /\ got' = [got EXCEPT ![fname[t]] = Append(@, loadedData[fname[t]])]
    /\ pc' = [pc EXCEPT ![t] = "idle"]
    /\ fname' = [fname EXCEPT ![t] = NoName]
    /\ made' = [made EXCEPT ![t] = NullPtr]
    /\ UNCHANGED <<disk, loadedData, creates, nextPtr, calls, alive>>
    /\ UNCHANGED <<createVars, tensorVars, bxdfVars>>

\* Outside the program: the file at path p is replaced by another one.
ReplaceFile(p) ==
    /\ alive
    /\ \E file \in DiskFiles \ {disk[p]} : disk' = [disk EXCEPT ![p] = file]
    /\ UNCHANGED <<loadedData, pc, fname, made, creates, got, nextPtr, calls, alive>>
    /\ UNCHANGED <<createVars, tensorVars, bxdfVars>>

(***************************************************************************)
(* MeasuredBxDFData::Create, run once on a loaded file.                    *)
(***************************************************************************)
InitCreate == cfile \in CreateInputs /\ cres = NotRun

CreateCall ==
    /\ cres = NotRun
    /\ cres' = Create(cfile)
    /\ UNCHANGED cfile
    /\ UNCHANGED <<cacheVars, tensorVars, bxdfVars>>

(***************************************************************************)
(* The tensor file format, byte by byte.                                   *)
(*                                                                         *)
(* Integers of the file are little-endian.  A decoded value of Huge or     *)
(* more is kept as Huge: it stands for a number larger than any file of    *)
(* the model, and nothing else about it is used.                           *)
(***************************************************************************)
Huge == 1000000

Min(a, b) == IF a <= b THEN a ELSE b

RECURSIVE LE(_, _)
LE(n, w) == IF w = 0 THEN <<>> ELSE <<n % 256>> \o LE(n \div 256, w - 1)

RECURSIVE FromLE(_)
FromLE(bs) ==
    IF bs = <<>> THEN 0
    ELSE LET hi == FromLE(Tail(bs))
         IN  IF hi >= Huge \div 256 THEN Huge ELSE Min(Huge, bs[1] + 256 * hi)

\* The sign bit of a 64-bit value handed to fseek as a long.
Negative64(bs) == bs[8] >= 128

\* "tensor_file" and its terminating NUL: the 12 bytes memcmp compares.
Magic == <<116, 101, 110, 115, 111, 114, 95, 102, 105, 108, 101, 0>>

HeaderLen == 18

\* fread(ptr, size, count, file) == count: are n more bytes there at p?
\* (A read of no bytes succeeds wherever the stream stands.)
Avail(b, p, n) == n = 0 \/ p + n <= Len(b)

Bytes(b, p, n) == SubSeq(b, p + 1, p + n)

RECURSIVE Product(_)
Product(shape) ==
    IF shape = <<>> THEN 1
    ELSE LET rest == Product(Tail(shape))
         IN  IF shape[1] = 0 \/ rest = 0 THEN 0
             ELSE IF shape[1] >= Huge \/ rest >= Huge THEN Huge
             ELSE Min(Huge, shape[1] * rest)

\* sizeof(size_t), sizeof(uint64_t): the bytes of a size.
SizeBytes == 8

\* a, as w little-endian bytes: cut, or filled with zeros.
Pad(a, w) == [k \in 1..w |-> IF k <= Len(a) THEN a[k] ELSE 0]

\* The sum of a[i] * b[k + 1 - i] over i = from..k: column k of the product.
RECURSIVE Column(_, _, _, _)
Column(a, b, k, from) ==
    IF from > k THEN 0 ELSE a[from] * b[k + 1 - from] + Column(a, b, k, from + 1)

RECURSIVE MulFrom(_, _, _, _, _)
MulFrom(a, b, k, carry, w) ==
    IF k > w THEN <<>>
    ELSE LET t == Column(a, b, k, 1) + carry
         IN  <<t % 256>> \o MulFrom(a, b, k + 1, t \div 256, w)

\* a * b in unsigned arithmetic of w bytes: the product modulo 256^w.
Mul(a, b, w) == MulFrom(Pad(a, w), Pad(b, w), 1, 0, w)

\* size_t total_size = type_size(dtype); total_size *= shape[j] for every j,
\* in arithmetic of w bytes; raw holds the bytes of each size_value.
RECURSIVE TotalBytes(_, _, _)
TotalBytes(acc, raw, w) ==
    IF raw = <<>> THEN Pad(acc, w)
    ELSE TotalBytes(Mul(acc, raw[1], w), Tail(raw), w)

TotalSize(dtype, raw) == FromLE(TotalBytes(LE(type_size(dtype), 1), raw, SizeBytes))

NoRec == [name |-> <<>>, dtype |-> Invalid, offset |-> 0, offsetBytes |-> <<>>,
          shape |-> <<>>, total_size |-> 0]

NoErr == "none"

\* The mutant of ReadDims: each size is put in front of the ones read so far,
\* so the shape comes out reversed.
RECURSIVE ReadDims_Reversed(_, _, _)
ReadDims_Reversed(b, p, k) ==
    IF k = 0 THEN [ok |-> TRUE, shape |-> <<>>, raw |-> <<>>, end |-> p]
    ELSE IF ~Avail(b, p, 8) THEN [ok |-> FALSE, shape |-> <<>>, raw |-> <<>>, end |-> p]
    ELSE LET rest == ReadDims_Reversed(b, p + 8, k - 1)
         IN  [ok |-> rest.ok, shape |-> rest.shape \o <<FromLE(Bytes(b, p, 8))>>,
              raw |-> <<Bytes(b, p, 8)>> \o rest.raw, end |-> rest.end]

\* The loop over j reading the ndim dimension sizes, from position p.
RECURSIVE ReadDims(_, _, _)
ReadDims(b, p, k) ==
    IF k = 0 THEN [ok |-> TRUE, shape |-> <<>>, raw |-> <<>>, end |-> p]
    ELSE IF ~Avail(b, p, 8) THEN [ok |-> FALSE, shape |-> <<>>, raw |-> <<>>, end |-> p]
    ELSE LET rest == ReadDims(b, p + 8, k - 1)
         IN  [ok |-> rest.ok, shape |-> <<FromLE(Bytes(b, p, 8))>> \o rest.shape,
              raw |-> <<Bytes(b, p, 8)>> \o rest.raw, end |-> rest.end]

\* The header part of one loop iteration: the SAFE_READs of name_length,
\* name, ndim, dtype and offset, the ASSERT on dtype, and the dimension
\* sizes.  err names the first ASSERT that fails.
ParseRecord(b, p) ==
    IF ~Avail(b, p, 2) THEN [err |-> "read name_length", rec |-> NoRec, end |-> p]
    ELSE
    LET name_length == FromLE(Bytes(b, p, 2))
        p1 == p + 2
    IN  IF ~Avail(b, p1, name_length) THEN [err |-> "read name", rec |-> NoRec, end |-> p]
    ELSE
    LET name == Bytes(b, p1, name_length)
        p2   == p1 + name_length
    IN  IF ~Avail(b, p2, 2) THEN [err |-> "read ndim", rec |-> NoRec, end |-> p]
    ELSE
    LET ndim == FromLE(Bytes(b, p2, 2))
        p3   == p2 + 2
    IN  IF ~Avail(b, p3, 1) THEN [err |-> "read dtype", rec |-> NoRec, end |-> p]
    ELSE
    LET dtype == b[p3 + 1]
        p4    == p3 + 1
    IN  IF ~Avail(b, p4, 8) THEN [err |-> "read offset", rec |-> NoRec, end |-> p]
    ELSE
    LET offsetBytes == Bytes(b, p4, 8)
        p5          == p4 + 8
    IN  IF ~(dtype # Invalid /\ dtype <= Float64)
        THEN [err |-> "unknown type", rec |-> NoRec, end |-> p]
    ELSE
    LET dims == ReadDims(b, p5, ndim)
    IN  IF ~dims.ok THEN [err |-> "read size_value", rec |-> NoRec, end |-> p]
        ELSE [err |-> NoErr,
              rec |-> [name |-> name, dtype |-> dtype, offset |-> FromLE(offsetBytes),
                       offsetBytes |-> offsetBytes, shape |-> dims.shape,
                       total_size |-> TotalSize(dtype, dims.raw)],
              end |-> dims.end]

(***************************************************************************)
(* The files the loader is run on.  A file is written from a description:  *)
(* field records (name, dtype, shape, and the payload's offset, counted    *)
(* from the end of the header records), followed by BlobLen payload bytes. *)
(* The description may then be damaged: another magic or version, or only  *)
(* the first `cut` bytes kept.                                             *)
(***************************************************************************)
MaxFields == 2
BlobLen   == 4

Names == {<<97>>, <<97, 98>>}

\* neg: the offset is written with its sign bit set (and rel is not used).
FD(name, dtype, shape, rel) ==
    [name |-> name, dtype |-> dtype, shape |-> shape, rel |-> rel, neg |-> FALSE]

FDNeg(name, dtype, shape) ==
    [name |-> name, dtype |-> dtype, shape |-> shape, rel |-> 0, neg |-> TRUE]

\* Payloads inside the blob, at its start and overrunning its end; two that
\* overlap when written in this order; an empty payload placed after the end
\* of the file; an offset with the sign bit set; the two dtype codes out of
\* range.
FieldChoices ==
    {FD(n, UInt8, <<2>>, r) : n \in Names, r \in {0, BlobLen - 1}}
    \cup {FD(n, UInt16, <<1, 2>>, r) : n \in Names, r \in {0, BlobLen - 1}}
    \cup {FD(<<97>>, UInt16, <<>>, 1), FD(<<97, 98>>, UInt8, <<2>>, 1)}
    \cup {FD(<<97>>, UInt8, <<0>>, BlobLen + 2), FDNeg(<<97>>, UInt8, <<0>>)}
    \cup {FD(<<97>>, d, <<2>>, 0) : d \in {Invalid, Float64 + 1}}

RECURSIVE FieldSeqs(_)
FieldSeqs(k) ==
    IF k = 0 THEN {<<>>}
    ELSE LET prev == FieldSeqs(k - 1)
         IN  prev \cup {Append(fs, f) : fs \in {x \in prev : Len(x) = k - 1}, f \in FieldChoices}

RecordLen(f) == 2 + Len(f.name) + 2 + 1 + 8 + 8 * Len(f.shape)

RECURSIVE RecordsLen(_)
RecordsLen(fs) == IF fs = <<>> THEN 0 ELSE RecordLen(fs[1]) + RecordsLen(Tail(fs))

\* Where the header records of fs end, and the blob starts.
BlobStart(fs) == HeaderLen + RecordsLen(fs)

OffsetBytes(f, start) ==
    IF f.neg THEN <<0, 0, 0, 0, 0, 0, 0, 128>> ELSE LE(start + f.rel, 8)

RECURSIVE DimBytes(_)
DimBytes(shape) == IF shape = <<>> THEN <<>> ELSE LE(shape[1], 8) \o DimBytes(Tail(shape))

RecordBytes(f, start) ==
    LE(Len(f.name), 2) \o f.name \o LE(Len(f.shape), 2) \o <<f.dtype>>
        \o OffsetBytes(f, start) \o DimBytes(f.shape)

RECURSIVE RecordsBytes(_, _)
RecordsBytes(fs, start) ==
    IF fs = <<>> THEN <<>> ELSE RecordBytes(fs[1], start) \o RecordsBytes(Tail(fs), start)

Blob == [k \in 1..BlobLen |-> 200 + k]

\* The writer: the whole file of a description.
Written(d) ==
    d.magic \o d.version \o LE(Len(d.fields), 4)
        \o RecordsBytes(d.fields, BlobStart(d.fields)) \o Blob

\* The file on disk: the written bytes, cut to d.cut bytes.
FileBytes(d) == SubSeq(Written(d), 1, Min(d.cut, Len(Written(d))))

Whole == Huge

D(fields, magic, version, cut, exists) ==
    [fields |-> fields, magic |-> magic, version |-> version, cut |-> cut, exists |-> exists]

BadMagics == {[Magic EXCEPT ![1] = 84], [Magic EXCEPT ![12] = 1]}
BadVersions == {<<1, 1>>, <<2, 0>>, <<0, 1>>}

\* Descriptions whose files are cut at every length.
CutFields ==
    {<<>>,
     <<FD(<<97>>, UInt8, <<2>>, 0)>>,
     <<FD(<<97, 98>>, UInt16, <<1, 2>>, 0)>>,
     <<FD(<<97>>, UInt16, <<>>, 1), FD(<<97, 98>>, UInt8, <<2>>, 0)>>}

\* A field whose byte count is 8 * 2^30 * 2^30 * 2 = 2^64, and one of 2^60
\* bytes, more than an address space holds.
WrappingField == FD(<<97>>, Float64, <<1073741824, 1073741824, 2>>, 0)
VastField     == FD(<<97>>, UInt8, <<1073741824, 1073741824>>, 0)

VastFields ==
    {<<WrappingField>>, <<VastField>>, <<FD(<<97, 98>>, UInt8, <<2>>, 0), WrappingField>>}

Descriptions ==
    {D(fs, Magic, <<1, 0>>, Whole, TRUE) : fs \in FieldSeqs(MaxFields) \cup VastFields}
    \cup {D(fs, m, <<1, 0>>, Whole, TRUE) : fs \in CutFields, m \in BadMagics}
    \cup {D(fs, Magic, v, Whole, TRUE) : fs \in CutFields, v \in BadVersions}
    \cup UNION {{D(fs, Magic, <<1, 0>>, c, TRUE)
                    : c \in 0..(BlobStart(fs) + BlobLen - 1)} : fs \in CutFields}
    \cup {D(<<>>, Magic, <<1, 0>>, Whole, FALSE)}

(***************************************************************************)
(* Tensor::Tensor(filename), step by step.  ErrorExit ends the process:    *)
(* stage "fatal", and no Tensor exists.  Reads fail only at the end of the *)
(* file; fseek fails only for a negative offset.                           *)
(***************************************************************************)
idleTensor ==
    /\ bytes = <<>>
    /\ desc = D(<<>>, Magic, <<1, 0>>, Whole, FALSE)
    /\ stage = "idle"
    /\ pos = 0
    /\ m_size = 0
    /\ n_fields = 0
    /\ idx = 0
    /\ rec = NoRec
    /\ m_fields = <<>>
    /\ closes = 0
    /\ err = NoErr

InitTensor ==
    /\ desc \in Descriptions
    /\ bytes = FileBytes(desc)
    /\ stage = "open"
    /\ pos = 0
    /\ m_size = 0
    /\ n_fields = 0
    /\ idx = 0
    /\ rec = NoRec
    /\ m_fields = <<>>
    /\ closes = 0
    /\ err = NoErr

\* ASSERT(cond, msg) with cond false: fclose(file); ErrorExit(msg).
Abort(msg) ==
    /\ stage' = "fatal"
    /\ err' = msg
    /\ closes' = closes + 1

\* FOpenRead, the seek to the end, ftell, rewind and the size test.
TOpen ==
    /\ stage = "open"
    /\ \/ /\ ~desc.exists
          /\ stage' = "fatal"
          /\ err' = "unable to open file"
          /\ UNCHANGED <<m_size, closes>>
       \/ /\ desc.exists
          /\ m_size' = Len(bytes)
          /\ IF Len(bytes) >= 12 + 2 + 4
             THEN stage' = "preamble" /\ UNCHANGED <<err, closes>>
             ELSE Abort("too small")
    /\ UNCHANGED <<bytes, desc, pos, n_fields, idx, rec, m_fields>>
    /\ UNCHANGED <<cacheVars, createVars, bxdfVars>>

\* The mutant of TPreamble: only the major version is tested.
TPreamble_MajorOnly ==
    /\ stage = "preamble"
    /\ IF ~Avail(bytes, pos, 12) THEN Abort("read header") /\ UNCHANGED <<pos, n_fields>>
       ELSE IF ~Avail(bytes, pos + 12, 2) THEN Abort("read version") /\ UNCHANGED <<pos, n_fields>>
       ELSE IF ~Avail(bytes, pos + 14, 4) THEN Abort("read n_fields") /\ UNCHANGED <<pos, n_fields>>
       ELSE LET header  == Bytes(bytes, pos, 12)
                version == Bytes(bytes, pos + 12, 2)
            IN  IF header # Magic
                THEN Abort("invalid header") /\ UNCHANGED <<pos, n_fields>>
                ELSE IF ~(version[1] = 1)
                THEN Abort("unknown file version") /\ UNCHANGED <<pos, n_fields>>
                ELSE /\ n_fields' = FromLE(Bytes(bytes, pos + 14, 4))
                     /\ pos' = pos + 18
                     /\ stage' = "record"
                     /\ UNCHANGED <<err, closes>>
    /\ UNCHANGED <<bytes, desc, m_size, idx, rec, m_fields>>
    /\ UNCHANGED <<cacheVars, createVars, bxdfVars>>

\* The reads of header, version and n_fields, then the two ASSERTs on them.
TPreamble ==
    /\ stage = "preamble"
    /\ IF ~Avail(bytes, pos, 12) THEN Abort("read header") /\ UNCHANGED <<pos, n_fields>>
       ELSE IF ~Avail(bytes, pos + 12, 2) THEN Abort("read version") /\ UNCHANGED <<pos, n_fields>>
       ELSE IF ~Avail(bytes, pos + 14, 4) THEN Abort("read n_fields") /\ UNCHANGED <<pos, n_fields>>
       ELSE LET header  == Bytes(bytes, pos, 12)
                version == Bytes(bytes, pos + 12, 2)
            IN  IF header # Magic
                THEN Abort("invalid header") /\ UNCHANGED <<pos, n_fields>>
                ELSE IF ~(version[1] = 1 /\ version[2] = 0)
                THEN Abort("unknown file version") /\ UNCHANGED <<pos, n_fields>>
                ELSE /\ n_fields' = FromLE(Bytes(bytes, pos + 14, 4))
                     /\ pos' = pos + 18
                     /\ stage' = "record"
                     /\ UNCHANGED <<err, closes>>
    /\ UNCHANGED <<bytes, desc, m_size, idx, rec, m_fields>>
    /\ UNCHANGED <<cacheVars, createVars, bxdfVars>>

\* for (i < n_fields): the header part of the iteration.
TRecordHeader ==
    /\ stage = "record" /\ idx < n_fields
    /\ LET r == ParseRecord(bytes, pos)
       IN  IF r.err # NoErr
           THEN Abort(r.err) /\ UNCHANGED <<pos, rec>>
           ELSE /\ rec' = r.rec
                /\ pos' = r.end
                /\ stage' = "payload"
                /\ UNCHANGED <<err, closes>>
    /\ UNCHANGED <<bytes, desc, m_size, n_fields, idx, m_fields>>
    /\ UNCHANGED <<cacheVars, createVars, bxdfVars>>

Field(r, data) == [dtype |-> r.dtype, offset |-> r.offset, shape |-> r.shape, data |-> data]

\* The mutant of TPayload: the seek back to cur_pos is left out.
TPayload_NoSeekBack ==
    /\ stage = "payload"
    /\ IF Negative64(rec.offsetBytes)
       THEN Abort("seek to tensor offset") /\ UNCHANGED <<pos, idx, m_fields>>
       ELSE IF ~Avail(bytes, rec.offset, rec.total_size)
       THEN Abort("read data") /\ UNCHANGED <<pos, idx, m_fields>>
       ELSE /\ pos' = rec.offset + rec.total_size
            /\ m_fields' = [n \in DOMAIN m_fields \cup {rec.name} |->
                              IF n = rec.name
                              THEN Field(rec, Bytes(bytes, rec.offset, rec.total_size))
                              ELSE m_fields[n]]
            /\ idx' = idx + 1
            /\ stage' = "record"
            /\ UNCHANGED <<err, closes>>
    /\ rec' = NoRec
    /\ UNCHANGED <<bytes, desc, m_size, n_fields>>
    /\ UNCHANGED <<cacheVars, createVars, bxdfVars>>

\* The mutant of TPayload: a name already in the table keeps its field
\* (insert in place of operator[]).
TPayload_KeepFirst ==
    /\ stage = "payload"
    /\ LET cur_pos == pos
       IN  IF Negative64(rec.offsetBytes)
           THEN Abort("seek to tensor offset") /\ UNCHANGED <<pos, idx, m_fields>>
           ELSE IF ~Avail(bytes, rec.offset, rec.total_size)
           THEN Abort("read data") /\ UNCHANGED <<pos, idx, m_fields>>
           ELSE /\ pos' = cur_pos
                /\ m_fields' = [n \in DOMAIN m_fields \cup {rec.name} |->
                                  IF n \in DOMAIN m_fields THEN m_fields[n]
                                  ELSE Field(rec, Bytes(bytes, rec.offset, rec.total_size))]
                /\ idx' = idx + 1
                /\ stage' = "record"
                /\ UNCHANGED <<err, closes>>
    /\ rec' = NoRec
    /\ UNCHANGED <<bytes, desc, m_size, n_fields>>
    /\ UNCHANGED <<cacheVars, createVars, bxdfVars>>

\* The payload part of the iteration: new uint8_t[total_size], ftell,
\* fseek(offset), the read, fseek(cur_pos), m_fields[name] = Field{...}.
TPayload ==
    /\ stage = "payload"
    /\ LET cur_pos == pos
       IN  IF Negative64(rec.offsetBytes)
           THEN Abort("seek to tensor offset") /\ UNCHANGED <<pos, idx, m_fields>>
           ELSE IF ~Avail(bytes, rec.offset, rec.total_size)
           THEN Abort("read data") /\ UNCHANGED <<pos, idx, m_fields>>
           ELSE /\ pos' = cur_pos
                /\ m_fields' = [n \in DOMAIN m_fields \cup {rec.name} |->
                                  IF n = rec.name
                                  THEN Field(rec, Bytes(bytes, rec.offset, rec.total_size))
                                  ELSE m_fields[n]]
                /\ idx' = idx + 1
                /\ stage' = "record"
                /\ UNCHANGED <<err, closes>>
    /\ rec' = NoRec
    /\ UNCHANGED <<bytes, desc, m_size, n_fields>>
    /\ UNCHANGED <<cacheVars, createVars, bxdfVars>>

\* new uint8_t[total_size] of the payload part throws std::bad_alloc: the
\* exception leaves the constructor, and no fclose(file) is reached.  An
\* allocation of Huge bytes may also succeed, and TPayload goes on.
TAllocFails ==
    /\ stage = "payload"
    /\ rec.total_size >= Huge
    /\ stage' = "fatal"
    /\ err' = "bad_alloc"
    /\ UNCHANGED <<bytes, desc, pos, m_size, n_fields, idx, rec, m_fields, closes>>
    /\ UNCHANGED <<cacheVars, createVars, bxdfVars>>

\* The loop is over: fclose(file), and the constructor returns.
TFinish ==
    /\ stage = "record" /\ idx >= n_fields
    /\ stage' = "done"
    /\ closes' = closes + 1
    /\ UNCHANGED <<bytes, desc, pos, m_size, n_fields, idx, rec, m_fields, err>>
    /\ UNCHANGED <<cacheVars, createVars, bxdfVars>>

(***************************************************************************)
(* Sample_f of the dielectric, hair and measured models.                   *)
(*                                                                         *)
(* Reals are fractions over Grid: uc = call.uc / Grid lies in [0, 1), the  *)
(* Fresnel reflectance is R = call.R / Grid and T = 1 - R.  What the       *)
(* helpers outside this file return (FrDielectric, Refract, Reflect,       *)
(* SameHemisphere, the microfacet distribution, the interpolants) is an    *)
(* input of the call.                                                      *)
(***************************************************************************)
Grid == 4

Reflection   == "Reflection"
Transmission == "Transmission"

\* BxDFReflTransFlags: Unset, Reflection, Transmission, All
Filters == SUBSET {Reflection, Transmission}

Modes == {"Radiance", "Importance"}

SpecularReflection   == {"Specular", Reflection}
SpecularTransmission == {"Specular", Transmission}
GlossyReflection     == {"Glossy", Reflection}
GlossyTransmission   == {"Glossy", Transmission}

\* HairBxDF::pMax
pMax == 3

Abs(x) == IF x < 0 THEN -x ELSE x

\* The z components the calls are made with: below, in and above the
\* surface plane.
Signs == {-1, 0, 1}

(***************************************************************************)
(* A spectrum value: the term the code evaluates, divided by `den` (the    *)
(* cosine factor of its denominator) and, when `scaled`, by Sqr(etap).     *)
(* A value whose den is 0 is a division by zero: infinite or NaN.          *)
(***************************************************************************)
W(term, den, scaled) == [term |-> term, den |-> den, scaled |-> scaled]

ZeroSpectrum == W("zero", 1, FALSE)

Finite(w) == w.den # 0

\* A Float quotient num / den; 0 / 0 is NaN, and x / 0 is infinite.
Frac(num, den) == [num |-> num, den |-> den]

ZeroFloat == Frac(0, 1)

IsNaN(x) == x.num = 0 /\ x.den = 0

NoSample == [present |-> FALSE, flags |-> {}, pdfNum |-> 0, pdfDen |-> 1,
             lobe |-> 0, wiUp |-> FALSE, f |-> ZeroSpectrum, wiz |-> 0, wiPhi |-> 0]

Sample(flags, num, den) ==
    [present |-> TRUE, flags |-> flags, pdfNum |-> num, pdfDen |-> den,
     lobe |-> 0, wiUp |-> FALSE, f |-> ZeroSpectrum, wiz |-> 0, wiPhi |-> 0]

\* BSDFSample(f, wi, pdf, flags)
BSDFSample(f, wiz, num, den, flags) ==
    [Sample(flags, num, den) EXCEPT !.f = f, !.wiz = wiz]

NotCalled == [present |-> FALSE, flags |-> {"not called"}, pdfNum |-> 0, pdfDen |-> 1,
              lobe |-> 0, wiUp |-> FALSE, f |-> ZeroSpectrum, wiz |-> 0, wiPhi |-> 0]

\* The mutant of UcBelow: <= in place of <.
UcBelowOrEqual(uc, pr, pt) == uc * (pr + pt) <= pr * Grid

\* uc < pr / (pr + pt), for pr + pt > 0: the branch test of
\* DielectricBxDF::Sample_f, in both regimes.
UcBelow(uc, pr, pt) == uc * (pr + pt) < pr * Grid

\* The mutant of Unsymmetric: the division is done under Importance.
Unsymmetric_Importance(mode) == mode = "Importance"

\* if (mode == TransportMode::Radiance) ft /= Sqr(etap);
Unsymmetric(mode) == mode = "Radiance"

(***************************************************************************)
(* DielectricBxDF::Sample_f.  c.smooth: eta == 1 or EffectivelySmooth();   *)
(* c.valid: Refract succeeded; c.woz: wo.z; c.wiz: the z of the wi that    *)
(* Reflect or Refract gave; c.same: SameHemisphere(wo, wi) of that wi;     *)
(* c.wiz0: its z is 0.  The smooth reflection is wi = (-wo.x, -wo.y, wo.z).*)
(* The rough densities share the factor of the microfacet distribution,    *)
(* which is left out: pdf stands for pr / (pr + pt) or pt / (pr + pt).     *)
(***************************************************************************)
DielectricSample_f(c) ==
    LET R  == c.R
        T  == Grid - R
        pr == IF Reflection \in c.filter THEN R ELSE 0
        pt == IF Transmission \in c.filter THEN T ELSE 0
    IN  IF pr = 0 /\ pt = 0 THEN NoSample
        ELSE IF c.smooth
        THEN IF UcBelow(c.uc, pr, pt)
             THEN BSDFSample(W("R", Abs(c.woz), FALSE), c.woz, pr, pr + pt,
                             SpecularReflection)
             ELSE IF ~c.valid THEN NoSample
             ELSE BSDFSample(W("T", Abs(c.wiz), Unsymmetric(c.mode)), c.wiz,
                             pt, pr + pt, SpecularTransmission)
        ELSE IF UcBelow(c.uc, pr, pt)
             THEN IF ~c.same THEN NoSample
                  ELSE BSDFSample(W("R", c.wiz * c.woz, FALSE), c.wiz, pr, pr + pt,
                                  GlossyReflection)
             ELSE IF c.same \/ c.wiz0 \/ ~c.valid THEN NoSample
                  ELSE BSDFSample(W("T", c.wiz * c.woz, Unsymmetric(c.mode)), c.wiz,
                                  pt, pr + pt, GlossyTransmission)

(***************************************************************************)
(* DielectricBxDF::f and DielectricBxDF::PDF for a pair (wo, wi).  q.co    *)
(* and q.ci: cosTheta_o and cosTheta_i; q.wmZero: LengthSquared(wm) == 0;  *)
(* q.back: the generalized half vector is backfacing for wi or wo.         *)
(***************************************************************************)
\* The mutant of DielectricF: backfacing microfacets are not discarded.
DielectricF_NoBackfacing(q) ==
    IF q.smooth THEN ZeroSpectrum
    ELSE LET reflect == q.ci * q.co > 0
         IN  IF q.ci = 0 \/ q.co = 0 \/ q.wmZero THEN ZeroSpectrum
             ELSE IF reflect THEN W("R", Abs(q.ci * q.co), FALSE)
             ELSE W("T", q.ci * q.co, Unsymmetric(q.mode))

DielectricF(q) ==
    IF q.smooth THEN ZeroSpectrum
    ELSE LET reflect == q.ci * q.co > 0
         IN  IF q.ci = 0 \/ q.co = 0 \/ q.wmZero THEN ZeroSpectrum
             ELSE IF q.back THEN ZeroSpectrum
             ELSE IF reflect THEN W("R", Abs(q.ci * q.co), FALSE)
             ELSE W("T", q.ci * q.co, Unsymmetric(q.mode))

DielectricPDF(q) ==
    IF q.smooth THEN ZeroFloat
    ELSE LET reflect == q.ci * q.co > 0
             R  == q.R
             T  == Grid - R
             pr == IF Reflection \in q.filter THEN R ELSE 0
             pt == IF Transmission \in q.filter THEN T ELSE 0
         IN  IF q.ci = 0 \/ q.co = 0 \/ q.wmZero THEN ZeroFloat
             ELSE IF q.back THEN ZeroFloat
             ELSE IF pr = 0 /\ pt = 0 THEN ZeroFloat
             ELSE IF reflect THEN Frac(pr, pr + pt)
             ELSE Frac(pt, pr + pt)

\* SampleDiscrete(weights, u): the first lobe whose cumulated weight exceeds
\* u times the sum of the weights (the weights need not sum to 1).
RECURSIVE SumTo(_, _)
SumTo(w, k) == IF k = 0 THEN 0 ELSE w[k] + SumTo(w, k - 1)

SampleDiscrete(w, uc) ==
    CHOOSE p \in 0..pMax :
        /\ SumTo(w, p) * Grid <= uc * SumTo(w, pMax + 1)
        /\ uc * SumTo(w, pMax + 1) < SumTo(w, p + 1) * Grid

\* The averages as.Average() of the pMax + 1 terms Ap returns, for the
\* calls of Sample_f: their sum is not 0.
ApPDFs ==
    {<<1, 1, 1, Grid - 3>>, <<Grid, 0, 0, 0>>, <<0, 2, 1, Grid - 3>>, <<0, 0, 0, Grid>>}


\* HairBxDF::ApPDF, from the averages of the Ap terms:
\* apPDF[i] = ap[i].Average() / sumY.
ApPDF(ap) ==
    LET sumY == SumTo(ap, pMax + 1)
    IN  [i \in 1..(pMax + 1) |-> Frac(ap[i], sumY)]

(***************************************************************************)
(* Azimuths are multiples of pi / HalfTurn.  c.phio: phi_o; c.dphi: the    *)
(* dphi Sample_f drew; c.ciZero: cosTheta_i of the sampled wi is 0, so     *)
(* that wi = (+-1, 0, 0).  Mp and Np are the longitudinal and azimuthal    *)
(* functions: c.mp[p + 1] is Mp for lobe p, and c.np[p + 1] is Np for lobe *)
(* p as a function of the azimuth difference modulo a full turn.           *)
(***************************************************************************)
HalfTurn == 2

\* An angle brought to (-pi, pi], as atan2 returns it.
Wrap(a) ==
    LET m == a % (2 * HalfTurn)
    IN  IF m > HalfTurn THEN m - 2 * HalfTurn ELSE m

\* atan2(wi.z, wi.y) of wi = (sinTheta_i, cosTheta_i * cos(phi_i),
\* cosTheta_i * sin(phi_i)): phi_i when cosTheta_i > 0; when it is 0 both
\* arguments are zeros and only the sign of cos(phi_i) is left.
Atan2OfWi(ciZero, phi_i) ==
    IF ~ciZero THEN Wrap(phi_i)
    ELSE IF 2 * Abs(Wrap(phi_i)) > HalfTurn THEN HalfTurn ELSE 0

Np(c, phi, p) == c.np[p + 1][(phi % (2 * HalfTurn)) + 1]

\* The loop over p < pMax of Mp * apPDF[p] * Np, plus the residual term
\* Mp * apPDF[pMax] * (1 / (2 * Pi)); the unit of density is 1 / (2 * Pi).
RECURSIVE MixtureTo(_, _, _)
MixtureTo(c, phi, k) ==
    IF k = 0 THEN 0
    ELSE c.mp[k] * c.apPDF[k] * Np(c, phi, k - 1) + MixtureTo(c, phi, k - 1)

MixturePDF(c, phi) ==
    Frac(MixtureTo(c, phi, pMax) + c.mp[pMax + 1] * c.apPDF[pMax + 1],
         SumTo(c.apPDF, pMax + 1))

(***************************************************************************)
(* HairBxDF::Sample_f: sampleFlags is not read; every path ends in         *)
(* return BSDFSample(f(wo, wi, mode), wi, pdf, Flags()).                   *)
(***************************************************************************)
HairSample_f(c) ==
    LET p     == SampleDiscrete(c.apPDF, c.uc)
        phi_i == c.phio + c.dphi
        pdf   == MixturePDF(c, c.dphi)
    IN  [BSDFSample(W("fsum", 1, FALSE), 0, pdf.num, pdf.den, GlossyReflection)
            EXCEPT !.lobe = p, !.wiPhi = Atan2OfWi(c.ciZero, phi_i)]

\* HairBxDF::PDF(wo, wi) for the wi of a sample: phi = phi_i - phi_o with
\* phi_i = atan2(wi.z, wi.y).
HairPDF(c, wiPhi) == MixturePDF(c, wiPhi - c.phio)

\* HairBxDF::f: fsum, divided by AbsCosTheta(wi) when that is above 0.
HairF(q) == W("fsum", IF Abs(q.ci) > 0 THEN Abs(q.ci) ELSE 1, FALSE)

(***************************************************************************)
(* MeasuredBxDF::Sample_f.  c.woz: the sign of wo.z; c.wizPos: the wi that *)
(* Reflect(wo, wm) gives has z > 0.                                        *)
(***************************************************************************)
\* The mutant of MeasuredSample_f: wo is flipped only when wo.z < 0.
MeasuredSample_f_FlipBelow(c) ==
    IF ~(Reflection \in c.filter) THEN NoSample
    ELSE LET flipWi == c.woz < 0
         IN  IF ~c.wizPos THEN NoSample
             ELSE [BSDFSample(W("fr", 1, FALSE), IF flipWi THEN -1 ELSE 1, 1, 1,
                              GlossyReflection) EXCEPT !.wiUp = ~flipWi]

MeasuredSample_f(c) ==
    IF ~(Reflection \in c.filter) THEN NoSample
    ELSE LET flipWi == c.woz <= 0
         IN  IF ~c.wizPos THEN NoSample
             ELSE [BSDFSample(W("fr", 1, FALSE), IF flipWi THEN -1 ELSE 1, 1, 1,
                              GlossyReflection) EXCEPT !.wiUp = ~flipWi]

(***************************************************************************)
(* MeasuredBxDF::f and MeasuredBxDF::PDF for a pair (wo, wi) of vectors.   *)
(* The result records which interpolants of the resource were consulted.   *)
(***************************************************************************)
SameHemisphere(w, wp) == w[3] * wp[3] > 0

Negated(v) == <<-v[1], -v[2], -v[3]>>

Plus(a, b) == <<a[1] + b[1], a[2] + b[2], a[3] + b[3]>>

LengthSquared(v) == v[1] * v[1] + v[2] * v[2] + v[3] * v[3]

Value(kind, w, x, consulted, arr) ==
    [kind |-> kind, w |-> w, x |-> x, consulted |-> consulted, arr |-> arr]

NotEvaluated == Value("not evaluated", ZeroSpectrum, ZeroFloat, {}, <<>>)

Spectrum(w, consulted) == Value("spectrum", w, ZeroFloat, consulted, <<>>)

Float(x, consulted) == Value("float", ZeroSpectrum, x, consulted, <<>>)

\* The mutant of MeasuredF: the hemispheres are not compared.
MeasuredF_NoHemisphereTest(q) ==
    LET wo == IF q.wo[3] < 0 THEN Negated(q.wo) ELSE q.wo
        wi == IF q.wo[3] < 0 THEN Negated(q.wi) ELSE q.wi
        wm == Plus(wi, wo)
    IN  IF LengthSquared(wm) = 0 THEN Spectrum(ZeroSpectrum, {})
        ELSE Spectrum(W("fr", wi[3], FALSE), {"vndf", "spectra", "ndf", "sigma"})

MeasuredF(q) ==
    IF ~SameHemisphere(q.wo, q.wi) THEN Spectrum(ZeroSpectrum, {})
    ELSE LET wo == IF q.wo[3] < 0 THEN Negated(q.wo) ELSE q.wo
             wi == IF q.wo[3] < 0 THEN Negated(q.wi) ELSE q.wi
             wm == Plus(wi, wo)
         IN  IF LengthSquared(wm) = 0 THEN Spectrum(ZeroSpectrum, {})
             ELSE Spectrum(W("fr", wi[3], FALSE), {"vndf", "spectra", "ndf", "sigma"})

MeasuredPDF(q) ==
    IF ~(Reflection \in q.filter) THEN Float(ZeroFloat, {})
    ELSE IF ~SameHemisphere(q.wo, q.wi) THEN Float(ZeroFloat, {})
    ELSE LET wo == IF q.wo[3] < 0 THEN Negated(q.wo) ELSE q.wo
             wi == IF q.wo[3] < 0 THEN Negated(q.wi) ELSE q.wi
             wm == Plus(wi, wo)
         IN  IF LengthSquared(wm) = 0 THEN Float(ZeroFloat, {})
             ELSE Float(Frac(1, 1), {"vndf", "luminance"})

Variants == {"dielectric", "hair", "measured"}

C(variant, filter, mode, uc, smooth, R, valid, same, wiz0, apPDF, woz, wizPos) ==
    [variant |-> variant, filter |-> filter, mode |-> mode, uc |-> uc,
     smooth |-> smooth, R |-> R, valid |-> valid, same |-> same, wiz0 |-> wiz0,
     apPDF |-> apPDF, woz |-> woz, wizPos |-> wizPos]

\* What the hair helpers return, as far as the calls vary it.
MpTables == {<<1, 2, 1, 1>>}

NpTables ==
    {[p \in 1..pMax |-> [a \in 1..(2 * HalfTurn) |-> 1 + ((a + p) % 2)]],
     [p \in 1..pMax |-> [a \in 1..(2 * HalfTurn) |-> a]]}

\* The geometry of a call: the z of the wi the helpers give (dielectric),
\* and the azimuths and tables of the hair model.
Geometry(wiz, phio, dphi, ciZero, mp, np) ==
    [wiz |-> wiz, phio |-> phio, dphi |-> dphi, ciZero |-> ciZero, mp |-> mp, np |-> np]

NoGeometry == Geometry(0, 0, 0, FALSE, <<>>, <<>>)

NoCall == C("none", {}, "Radiance", 0, FALSE, 0, FALSE, FALSE, FALSE, <<>>, 0, FALSE)
              @@ NoGeometry

\* Refract with the normal (0, 0, 1) succeeds only with cosTheta_t > 0: a
\* smooth transmission has wi.z # 0.  phi_o = atan2(wo.z, wo.y) is 0 or pi
\* when wo.z is 0.
SampleCalls ==
    {c \in {C("dielectric", fl, m, uc, sm, R, v, woz * wiz > 0, wiz = 0, <<>>, woz, FALSE)
                @@ Geometry(wiz, 0, 0, FALSE, <<>>, <<>>)
            : fl \in Filters, m \in Modes, uc \in 0..(Grid - 1),
              sm \in BOOLEAN, R \in 0..Grid, v \in BOOLEAN,
              woz \in Signs, wiz \in Signs}
        : ~(c.smooth /\ c.valid /\ c.wiz = 0)}
    \cup {c \in {C("hair", fl, m, uc, FALSE, 0, FALSE, FALSE, FALSE, w, woz, FALSE)
                @@ Geometry(0, phio, dphi, cz, mp, np)
            : fl \in Filters, m \in Modes, uc \in 0..(Grid - 1), w \in ApPDFs,
              woz \in {0, 1}, phio \in {0, 1}, dphi \in {0, 1, HalfTurn + 1},
              cz \in BOOLEAN, mp \in MpTables, np \in NpTables}
        : c.woz = 0 => c.phio = 0}
    \cup {C("measured", fl, m, uc, FALSE, 0, FALSE, FALSE, FALSE, <<>>, z, up)
            @@ NoGeometry
        : fl \in Filters, m \in Modes, uc \in 0..(Grid - 1), z \in Signs,
          up \in BOOLEAN}

(***************************************************************************)
(* The calls of f, PDF and ApPDF on inputs of their own.                   *)
(***************************************************************************)
Vectors == {<<x, 0, z>> : x \in Signs, z \in Signs} \ {<<0, 0, 0>>}

\* The averages of the Ap terms ApPDF is called with: none is negative.
ApAverages == [1..(pMax + 1) -> {0, 1}]

Q(variant, op, filter, mode) ==
    [variant |-> variant, op |-> op, filter |-> filter, mode |-> mode]

NoQuery == Q("none", "none", {}, "Radiance")

Queries ==
    {Q("dielectric", op, fl, m)
            @@ [smooth |-> sm, co |-> co, ci |-> ci, wmZero |-> z, back |-> b, R |-> R]
        : op \in {"f", "PDF"}, fl \in Filters, m \in Modes, sm \in BOOLEAN,
          co \in Signs, ci \in Signs, z \in BOOLEAN, b \in BOOLEAN, R \in 0..Grid}
    \cup {Q("hair", "f", {Reflection}, m) @@ [co |-> co, ci |-> ci]
        : m \in Modes, co \in Signs, ci \in Signs}
    \cup {Q("hair", "ApPDF", {}, "Radiance") @@ [ap |-> ap] : ap \in ApAverages}
    \cup {Q("measured", op, fl, m) @@ [wo |-> wo, wi |-> wi]
        : op \in {"f", "PDF"}, fl \in Filters, m \in Modes,
          wo \in Vectors, wi \in Vectors}

Density(taken, x) == [taken |-> taken, num |-> x.num, den |-> x.den]

NoDensity == Density(FALSE, ZeroFloat)

(***************************************************************************)
(* BxDF::rho, in its two forms: "hd" is rho(wo, uc, u2) and "hh" is        *)
(* rho(u1, uc, u2).  What the dispatched Sample_f returns for a draw is an *)
(* input: no sample, a sample of pdf 0, or a sample of pdf > 0, whose      *)
(* contribution f * AbsCosTheta(wi) / pdf is the unit of the sum.  In the  *)
(* second form draw i comes with the wo.z of SampleUniformHemisphere.      *)
(***************************************************************************)
MaxDraws == 2

Outcomes == {"none", "pdf0", "good"}

Draws(form) ==
    LET one == {[woz |-> z, bs |-> o] : z \in IF form = "hh" THEN {0, 1} ELSE {1},
                                       o \in Outcomes}
    IN  UNION {[1..n -> one] : n \in 0..MaxDraws}

Rho(form, woz, draws) ==
    [form |-> form, woz |-> woz, draws |-> draws, i |-> 0, r |-> 0, sampled |-> 0,
     done |-> FALSE, value |-> [num |-> 0, den |-> 1, perPi |-> FALSE]]

NoRho == Rho("none", 0, <<>>)

idleRho == rho = NoRho

InitRho ==
    rho \in {Rho("hd", z, d) : z \in Signs, d \in Draws("hd")}
            \cup {Rho("hh", 1, d) : d \in Draws("hh")}

\* if (wo.z == 0) return {};
RhoDegenerate ==
    /\ rho.form = "hd" /\ ~rho.done /\ rho.woz = 0
    /\ rho' = [rho EXCEPT !.done = TRUE]
    /\ UNCHANGED <<cacheVars, createVars, tensorVars, sampleVars, lobeVars>>

\* One iteration of the loop of rho(wo, uc, u2).
RhoDirectionalDraw ==
    /\ rho.form = "hd" /\ ~rho.done /\ rho.woz # 0 /\ rho.i < Len(rho.draws)
    /\ LET bs == rho.draws[rho.i + 1].bs
       IN  rho' = [rho EXCEPT !.i = @ + 1, !.sampled = @ + 1,
                              !.r = IF bs = "good" THEN @ + 1 ELSE @]
    /\ UNCHANGED <<cacheVars, createVars, tensorVars, sampleVars, lobeVars>>

\* One iteration of the loop of rho(u1, uc, u2).
RhoHemisphericalDraw ==
    /\ rho.form = "hh" /\ ~rho.done /\ rho.i < Len(rho.draws)
    /\ LET d == rho.draws[rho.i + 1]
       IN  IF d.woz = 0
           THEN rho' = [rho EXCEPT !.i = @ + 1]
           ELSE rho' = [rho EXCEPT !.i = @ + 1, !.sampled = @ + 1,
                                   !.r = IF d.bs = "good" THEN @ + 1 ELSE @]
    /\ UNCHANGED <<cacheVars, createVars, tensorVars, sampleVars, lobeVars>>

\* The mutant of RhoReturn: the sum is divided by the number of draws for
\* which Sample_f was called.
RhoReturn_PerSample ==
    /\ rho.form \in {"hd", "hh"} /\ ~rho.done /\ rho.i = Len(rho.draws)
    /\ rho.form = "hd" => rho.woz # 0
    /\ rho' = [rho EXCEPT !.done = TRUE,
                          !.value = [num |-> rho.r, den |-> rho.sampled,
                                     perPi |-> rho.form = "hh"]]
    /\ UNCHANGED <<cacheVars, createVars, tensorVars, sampleVars, lobeVars>>

\* return r / uc.size();  return r / (Pi * uc.size());
RhoReturn ==
    /\ rho.form \in {"hd", "hh"} /\ ~rho.done /\ rho.i = Len(rho.draws)
    /\ rho.form = "hd" => rho.woz # 0
    /\ rho' = [rho EXCEPT !.done = TRUE,
                          !.value = [num |-> rho.r, den |-> Len(rho.draws),
                                     perPi |-> rho.form = "hh"]]
    /\ UNCHANGED <<cacheVars, createVars, tensorVars, sampleVars, lobeVars>>

(***************************************************************************)
(* The lobes of HairBxDF and of MorphoBSDF.  Angles are whole degrees.     *)
(* l.thetaO and l.thetaI are the angles of wo and wi from the normal plane *)
(* of the fibre: sinTheta_o = wo.x = sin(thetaO) and cosTheta_o =          *)
(* SafeSqrt(1 - Sqr(sinTheta_o)) = cos(thetaO), with thetaO in -90..90.    *)
(* sin2kAlpha[k] and cos2kAlpha[k] are the sine and cosine of 2^k * alpha, *)
(* so that sinTheta_o * cos2kAlpha[k] + cosTheta_o * sin2kAlpha[k] and     *)
(* cosTheta_o * cos2kAlpha[k] - sinTheta_o * sin2kAlpha[k] are the sine    *)
(* and cosine of thetaO + 2^k * alpha, and with the signs exchanged those  *)
(* of thetaO - 2^k * alpha.  l.gammaO and l.gammaT are gamma_o and         *)
(* gamma_t, l.p the lobe SampleDiscrete returned.                          *)
(***************************************************************************)
RECURSIVE ScaleAngle(_, _)
ScaleAngle(alpha, k) == IF k = 0 THEN alpha ELSE 2 * ScaleAngle(alpha, k - 1)

\* (sinThetap_o, cosThetap_o): the sine of `angle` and its cosine, or the
\* absolute value of its cosine.
Tilt(angle, abs) == [angle |-> angle, abs |-> abs]

NoTilt == Tilt(0, FALSE)

\* The tilt of the loop of HairBxDF::f.
HairF_Tilt(p, thetaO, alpha) ==
    Tilt(IF p = 0 THEN thetaO - ScaleAngle(alpha, 1)
         ELSE IF p = 1 THEN thetaO + ScaleAngle(alpha, 0)
         ELSE IF p = 2 THEN thetaO + ScaleAngle(alpha, 2)
         ELSE thetaO,
         TRUE)

\* The tilt HairBxDF::Sample_f applies for the lobe it drew.
HairSample_f_Tilt(p, thetaO, alpha) ==
    Tilt(IF p = 0 THEN thetaO - ScaleAngle(alpha, 1)
         ELSE IF p = 1 THEN thetaO + ScaleAngle(alpha, 0)
         ELSE IF p = 2 THEN thetaO + ScaleAngle(alpha, 2)
         ELSE thetaO,
         TRUE)

\* The tilt of the density loop of HairBxDF::Sample_f.
HairSample_f_LoopTilt(p, thetaO, alpha) ==
    Tilt(IF p = 0 THEN thetaO - ScaleAngle(alpha, 1)
         ELSE IF p = 1 THEN thetaO + ScaleAngle(alpha, 0)
         ELSE IF p = 2 THEN thetaO + ScaleAngle(alpha, 2)
         ELSE thetaO,
         TRUE)

\* The mutant of HairPDF_Tilt: lobe 0 is rotated the other way.
HairPDF_Tilt_Positive(p, thetaO, alpha) ==
    Tilt(IF p = 0 THEN thetaO + ScaleAngle(alpha, 1)
         ELSE IF p = 1 THEN thetaO + ScaleAngle(alpha, 0)
         ELSE IF p = 2 THEN thetaO + ScaleAngle(alpha, 2)
         ELSE thetaO,
         TRUE)

\* The tilt of the loop of HairBxDF::PDF.
HairPDF_Tilt(p, thetaO, alpha) ==
    Tilt(IF p = 0 THEN thetaO - ScaleAngle(alpha, 1)
         ELSE IF p = 1 THEN thetaO + ScaleAngle(alpha, 0)
         ELSE IF p = 2 THEN thetaO + ScaleAngle(alpha, 2)
         ELSE thetaO,
         TRUE)

\* The tilt MorphoBSDF::Sample_f applies for the lobe it drew: no absolute
\* value is taken.
MorphoSample_f_Tilt(p, thetaO, alpha) ==
    Tilt(IF p = 0 THEN thetaO - ScaleAngle(alpha, 1)
         ELSE IF p = 1 THEN thetaO + ScaleAngle(alpha, 0)
         ELSE IF p = 2 THEN thetaO + ScaleAngle(alpha, 2)
         ELSE thetaO,
         FALSE)

\* An angle in degrees brought to (-180, 180].
WrapDegrees(a) ==
    LET m == a % 360
    IN  IF m > 180 THEN m - 360 ELSE m

\* std::round(std::atan2(sinThetap_o, cosThetap_o) * 180 / Pi): with the
\* absolute value of the cosine the angle is mirrored into -90..90.
Degrees(t) ==
    LET a == WrapDegrees(t.angle)
    IN  IF t.abs /\ a > 90 THEN 180 - a
        ELSE IF t.abs /\ a < -90 THEN -180 - a
        ELSE a

\* A call of an azimuthal helper, with its two angle arguments.
Helper(name, g1, g2) == [helper |-> name, args |-> <<g1, g2>>]

\* CurrentBRDFTable[it][ot]
Read(it, ot) == <<it, ot>>

Used(loop, drawn, azimuth, reads) ==
    [done |-> TRUE, loop |-> loop, drawn |-> drawn, azimuth |-> azimuth, reads |-> reads]

NotUsed == [done |-> FALSE, loop |-> <<>>, drawn |-> NoTilt, azimuth |-> {}, reads |-> {}]

NoLobe == [model |-> "none", op |-> "none", thetaO |-> 0, thetaI |-> 0, alpha |-> 0,
           p |-> 0, gammaO |-> 0, gammaT |-> 0]

\* wo and wi at, near and away from the fibre axis; no tilt and a tilt of
\* two degrees; h = 0 and h = 1/2.
Lobes ==
    {[model |-> m, op |-> op, thetaO |-> to, thetaI |-> ti, alpha |-> al, p |-> p,
      gammaO |-> g[1], gammaT |-> g[2]]
        : m \in {"hair", "morpho"}, op \in {"f", "Sample_f", "PDF"},
          to \in {-90, -87, 0, 45, 89, 90}, ti \in {-90, 0, 30},
          al \in {0, 2}, p \in 0..pMax, g \in {<<0, 0>>, <<30, 19>>}}

idleLobes == lobe = NoLobe /\ used = NotUsed

InitLobes == lobe \in Lobes /\ used = NotUsed

\* HairBxDF::f
HairLobes_f ==
    /\ lobe.model = "hair" /\ lobe.op = "f" /\ ~used.done
    /\ used' = Used([p \in 0..(pMax - 1) |-> HairF_Tilt(p, lobe.thetaO, lobe.alpha)],
                    NoTilt, {Helper("Np", lobe.gammaO, lobe.gammaT)}, {})
    /\ UNCHANGED <<lobe, cacheVars, createVars, tensorVars, sampleVars, rhoVars>>

\* HairBxDF::Sample_f
HairLobes_Sample_f ==
    /\ lobe.model = "hair" /\ lobe.op = "Sample_f" /\ ~used.done
    /\ used' = Used([p \in 0..(pMax - 1) |->
                        HairSample_f_LoopTilt(p, lobe.thetaO, lobe.alpha)],
                    HairSample_f_Tilt(lobe.p, lobe.thetaO, lobe.alpha),
                    {Helper("Np", lobe.gammaO, lobe.gammaT)}
                        \cup IF lobe.p < pMax
                             THEN {Helper("Phi", lobe.gammaO, lobe.gammaT)} ELSE {},
                    {})
    /\ UNCHANGED <<lobe, cacheVars, createVars, tensorVars, sampleVars, rhoVars>>

\* HairBxDF::PDF
HairLobes_PDF ==
    /\ lobe.model = "hair" /\ lobe.op = "PDF" /\ ~used.done
    /\ used' = Used([p \in 0..(pMax - 1) |-> HairPDF_Tilt(p, lobe.thetaO, lobe.alpha)],
                    NoTilt, {Helper("Np", lobe.gammaO, lobe.gammaT)}, {})
    /\ UNCHANGED <<lobe, cacheVars, createVars, tensorVars, sampleVars, rhoVars>>

\* MorphoBSDF::f: it and ot from atan2(w.x, sqrt(w.y^2 + w.z^2)) of wi and
\* wo; no azimuthal helper is called.
MorphoF_Reads(thetaI, thetaO) == {Read(Abs(thetaI), Abs(thetaO))}

MorphoLobes_f ==
    /\ lobe.model = "morpho" /\ lobe.op = "f" /\ ~used.done
    /\ used' = Used(<<>>, NoTilt, {}, MorphoF_Reads(lobe.thetaI, lobe.thetaO))
    /\ UNCHANGED <<lobe, cacheVars, createVars, tensorVars, sampleVars, rhoVars>>

\* The mutant of MorphoSample_f_Azimuth: the refracted angle is passed.
MorphoSample_f_Azimuth_Refracted(p, gamma_o, gamma_t) ==
    {Helper("Np", gamma_o, gamma_t)}
        \cup IF p < pMax THEN {Helper("Phi", gamma_o, gamma_t)} ELSE {}

\* The calls of Phi and Np in MorphoBSDF::Sample_f.
MorphoSample_f_Azimuth(p, gamma_o, gamma_t) ==
    {Helper("Np", gamma_o, gamma_o)}
        \cup IF p < pMax THEN {Helper("Phi", gamma_o, gamma_o)} ELSE {}

\* MorphoBSDF::Sample_f: it from atan2(wo.x, cosTheta_o), ot from the tilted
\* pair of the drawn lobe; then f(wo, wi, mode) for the sampled wi.
MorphoLobes_Sample_f ==
    /\ lobe.model = "morpho" /\ lobe.op = "Sample_f" /\ ~used.done
    /\ LET drawn == MorphoSample_f_Tilt(lobe.p, lobe.thetaO, lobe.alpha)
       IN  used' = Used(<<>>, drawn,
                        MorphoSample_f_Azimuth(lobe.p, lobe.gammaO, lobe.gammaT),
                        {Read(Abs(lobe.thetaO), Abs(Degrees(drawn)))}
                            \cup MorphoF_Reads(lobe.thetaI, lobe.thetaO))
    /\ UNCHANGED <<lobe, cacheVars, createVars, tensorVars, sampleVars, rhoVars>>

\* MorphoBSDF::Pdf: it from atan2(wi.x, cosTheta_i), ot from
\* atan2(wo.x, cosTheta_o), in every pass of the loop.
MorphoLobes_Pdf ==
    /\ lobe.model = "morpho" /\ lobe.op = "PDF" /\ ~used.done
    /\ used' = Used(<<>>, NoTilt, {Helper("Np", lobe.gammaO, lobe.gammaT)},
                    {Read(Abs(lobe.thetaI), Abs(lobe.thetaO))})
    /\ UNCHANGED <<lobe, cacheVars, createVars, tensorVars, sampleVars, rhoVars>>

idleSample ==
    /\ call = NoCall /\ result = NotCalled /\ density = NoDensity
    /\ query = NoQuery /\ answer = NotEvaluated

idleBxDF == idleSample /\ idleRho /\ idleLobes

InitBxDF ==
    /\ idleRho /\ idleLobes
    /\ result = NotCalled /\ density = NoDensity /\ answer = NotEvaluated
    /\ \/ call \in SampleCalls /\ query = NoQuery
       \/ call = NoCall /\ query \in Queries

DielectricCall ==
    /\ call.variant = "dielectric" /\ result = NotCalled
    /\ result' = DielectricSample_f(call)
    /\ UNCHANGED <<call, density, query, answer>>
    /\ UNCHANGED <<cacheVars, createVars, tensorVars, rhoVars, lobeVars>>

HairCall ==
    /\ call.variant = "hair" /\ result = NotCalled
    /\ result' = HairSample_f(call)
    /\ UNCHANGED <<call, density, query, answer>>
    /\ UNCHANGED <<cacheVars, createVars, tensorVars, rhoVars, lobeVars>>

MeasuredCall ==
    /\ call.variant = "measured" /\ result = NotCalled
    /\ result' = MeasuredSample_f(call)
    /\ UNCHANGED <<call, density, query, answer>>
    /\ UNCHANGED <<cacheVars, createVars, tensorVars, rhoVars, lobeVars>>

\* PDF(wo, wi, mode, sampleFlags) on the pair a dielectric sample is for.
\* wm is the normal the sample was drawn with: not zero, not backfacing.
DielectricDensity ==
    /\ call.variant = "dielectric" /\ result.present /\ ~density.taken
    /\ density' = Density(TRUE,
          DielectricPDF([smooth |-> call.smooth, co |-> call.woz, ci |-> result.wiz,
                         wmZero |-> FALSE, back |-> FALSE, R |-> call.R,
                         filter |-> call.filter, mode |-> call.mode]))
    /\ UNCHANGED <<call, result, query, answer>>
    /\ UNCHANGED <<cacheVars, createVars, tensorVars, rhoVars, lobeVars>>

\* PDF(wo, wi, mode, sampleFlags) on the pair a hair sample is for.
HairDensity ==
    /\ call.variant = "hair" /\ result.present /\ ~density.taken
    /\ density' = Density(TRUE, HairPDF(call, result.wiPhi))
    /\ UNCHANGED <<call, result, query, answer>>
    /\ UNCHANGED <<cacheVars, createVars, tensorVars, rhoVars, lobeVars>>

DielectricEval ==
    /\ query.variant = "dielectric" /\ answer = NotEvaluated
    /\ answer' = IF query.op = "f" THEN Spectrum(DielectricF(query), {})
                ELSE Float(DielectricPDF(query), {})
    /\ UNCHANGED <<call, result, density, query>>
    /\ UNCHANGED <<cacheVars, createVars, tensorVars, rhoVars, lobeVars>>

HairEval ==
    /\ query.variant = "hair" /\ answer = NotEvaluated
    /\ answer' = IF query.op = "f" THEN Spectrum(HairF(query), {})
                ELSE Value("array", ZeroSpectrum, ZeroFloat, {}, ApPDF(query.ap))
    /\ UNCHANGED <<call, result, density, query>>
    /\ UNCHANGED <<cacheVars, createVars, tensorVars, rhoVars, lobeVars>>

MeasuredEval ==
    /\ query.variant = "measured" /\ answer = NotEvaluated
    /\ answer' = IF query.op = "f" THEN MeasuredF(query) ELSE MeasuredPDF(query)
    /\ UNCHANGED <<call, result, density, query>>
    /\ UNCHANGED <<cacheVars, createVars, tensorVars, rhoVars, lobeVars>>

(***************************************************************************)
(* The specifications.                                                     *)
(***************************************************************************)
NextCache ==
    \/ \E t \in Threads, p \in Paths : Call(t, p)
    \/ \E t \in Threads : Find(t)
    \/ \E t \in Threads : CreateStep(t)
    \/ \E t \in Threads : Store(t)
    \/ \E t \in Threads : Return(t)

NextSeq ==
    \/ \E t \in Threads, p \in Paths : CallAlone(t, p)
    \/ \E t \in Threads : Find(t)
    \/ \E t \in Threads : CreateStep(t)
    \/ \E t \in Threads : Store(t)
    \/ \E t \in Threads : Return(t)

\* Sequential calls, with files replaced on disk between the steps.
NextReplace ==
    \/ \E t \in Threads, p \in Paths : CallAlone(t, p)
    \/ \E t \in Threads : Find(t)
    \/ \E t \in Threads : CreateStep(t)
    \/ \E t \in Threads : Store(t)
    \/ \E t \in Threads : Return(t)
    \/ \E p \in Paths : ReplaceFile(p)

NextCreate == CreateCall

NextTensor == TOpen \/ TPreamble \/ TRecordHeader \/ TPayload \/ TAllocFails \/ TFinish

NextBxDF ==
    \/ DielectricCall \/ HairCall \/ MeasuredCall
    \/ DielectricDensity \/ HairDensity
    \/ DielectricEval \/ HairEval \/ MeasuredEval

NextLobes ==
    \/ HairLobes_f \/ HairLobes_Sample_f \/ HairLobes_PDF
    \/ MorphoLobes_f \/ MorphoLobes_Sample_f \/ MorphoLobes_Pdf

NextRho == RhoDegenerate \/ RhoDirectionalDraw \/ RhoHemisphericalDraw \/ RhoReturn

InitOfCache  == InitCache /\ idleCreate /\ idleTensor /\ idleBxDF
InitOfCreate == InitCreate /\ idleCache /\ idleTensor /\ idleBxDF
InitOfTensor == InitTensor /\ idleCache /\ idleCreate /\ idleBxDF
InitOfBxDF   == InitBxDF /\ idleCache /\ idleCreate /\ idleTensor
InitOfRho    == InitRho /\ idleSample /\ idleLobes /\ idleCache /\ idleCreate /\ idleTensor
InitOfLobes  == InitLobes /\ idleSample /\ idleRho /\ idleCache /\ idleCreate /\ idleTensor

SpecCache  == InitOfCache /\ [][NextCache]_vars
SpecSeq    == InitOfCache /\ [][NextSeq]_vars
SpecReplace == InitOfCache /\ [][NextReplace]_vars
SpecCreate == InitOfCreate /\ [][NextCreate]_vars
SpecTensor == InitOfTensor /\ [][NextTensor]_vars
SpecBxDF   == InitOfBxDF /\ [][NextBxDF]_vars
SpecRho    == InitOfRho /\ [][NextRho]_vars
SpecLobes  == InitOfLobes /\ [][NextLobes]_vars

(***************************************************************************)
(* The claims about the cache.                                             *)
(***************************************************************************)

\* C1: when threads call BRDFDataFromFile concurrently for a path that is
\* not yet in the cache, Create runs exactly once for that path and every
\* caller gets the same resource.  (Checked under SpecCache, where the map
\* is read and written without a lock: two threads can both miss.)
C1_OneBuildPerPath ==
    \A p \in Paths :
        /\ creates[p] <= 1
        /\ \A i, j \in DOMAIN got[p] : got[p][i] = got[p][j]

\* Once a path has an entry, a step neither removes nor changes it.
NoEntryRemovedOrReplaced ==
    \A p \in DOMAIN loadedData :
        p \in DOMAIN loadedData' /\ loadedData'[p] = loadedData[p]

\* C2: in any sequential series of BRDFDataFromFile calls, Create is invoked
\* at most once per distinct path, every later call for a path returns the
\* pointer the first call for it returned, and no cache entry is ever
\* removed or replaced.
C2_SequentialCache ==
    /\ [](\A p \in Paths :
            /\ creates[p] <= 1
            /\ \A i \in DOMAIN got[p] : got[p][i] = got[p][1])
    /\ [][NoEntryRemovedOrReplaced]_vars

\* C2's case: one path was asked for twice and built once, and the other
\* path is cached as well.
C2_Witness ==
    /\ DOMAIN loadedData = Paths
    /\ \E p \in Paths : Len(got[p]) >= 2 /\ creates[p] = 1

(***************************************************************************)
(* The claims about MeasuredBxDFData::Create.                              *)
(***************************************************************************)
CreateRan == cres.kind # "not_run"

\* C3: Create on a well-formed tensor file that lacks a required field
\* reports a diagnostic and returns a null resource; it does not abort.
\* (The code aborts: Tensor::field's CHECK fails before the schema test.)
C3_MissingFieldYieldsNull ==
    (CreateRan /\ cfile.loads /\ FieldCheckFails(cfile.fields))
        => (cres.kind = "null" /\ cres.diagnostic)

\* The schema of a measured-BRDF file, requirement by requirement.
RequiredDtype ==
    [n \in LookedUpSet |-> IF n \in {"description", "jacobian"} THEN UInt8 ELSE Float32]

RequiredRank ==
    [n \in LookedUpSet |->
        CASE n \in {"description", "jacobian", "theta_i", "phi_i", "wavelengths"} -> 1
          [] n \in {"ndf", "sigma"} -> 2
          [] n \in {"vndf", "luminance"} -> 4
          [] n = "spectra" -> 5]

\* <<f, j, g, k>>: f.shape[j] must equal g.shape[k].
RequiredEqualDims ==
    { <<"vndf", 0, "phi_i", 0>>, <<"vndf", 1, "theta_i", 0>>,
      <<"luminance", 0, "phi_i", 0>>, <<"luminance", 1, "theta_i", 0>>,
      <<"luminance", 2, "luminance", 3>>,
      <<"spectra", 0, "phi_i", 0>>, <<"spectra", 1, "theta_i", 0>>,
      <<"spectra", 2, "wavelengths", 0>>, <<"spectra", 3, "spectra", 4>>,
      <<"luminance", 2, "spectra", 3>>, <<"luminance", 3, "spectra", 4>> }

SchemaViolated(tf) ==
    \/ \E n \in LookedUpSet : tf[n].dtype # RequiredDtype[n]
    \/ \E n \in LookedUpSet : Rank(tf[n]) # RequiredRank[n]
    \/ \E q \in RequiredEqualDims :
          /\ Rank(tf[q[1]]) > q[2] /\ Rank(tf[q[3]]) > q[4]
          /\ Dim(tf[q[1]], q[2]) # Dim(tf[q[3]], q[4])
    \/ Rank(tf["jacobian"]) = 1 /\ Dim(tf["jacobian"], 0) # 1

\* C4: when every looked-up field is present but one violates its required
\* dtype, rank or cross-shape relation, Create reports an error and returns
\* null before any resource is allocated or any interpolant is built.
C4_SchemaViolationYieldsNull ==
    (CreateRan /\ cfile.loads /\ ~FieldCheckFails(cfile.fields)
        /\ SchemaViolated(cfile.fields))
        => /\ cres.kind = "null"
           /\ cres.diagnostic
           /\ ~cres.allocated
           /\ cres.built = {}

\* C4's case: all ten fields are there, the jacobian's shape is not [1], and
\* Create has returned null.
C4_Witness ==
    /\ CreateRan /\ cfile.loads /\ ~FieldCheckFails(cfile.fields)
    /\ cfile.fields = WithField(GoodTable(3), "jacobian", F(UInt8, <<2>>))
    /\ cres.kind = "null"

(***************************************************************************)
(* The claims about the tensor loader.  They compare what the loader did   *)
(* with what the writer's description says the file holds.                 *)
(***************************************************************************)

\* The file is shorter than 18 bytes, or its first 12 bytes are not the
\* magic, or its version bytes are not (1, 0).
BadPreamble(b) ==
    \/ Len(b) < 18
    \/ SubSeq(b, 1, 12) # Magic
    \/ ~(b[13] = 1 /\ b[14] = 0)

\* C5: loading a tensor file aborts fatally, producing no Tensor, when the
\* file is shorter than 18 bytes, when its first 12 bytes are not the magic
\* "tensor_file", or when its version bytes are not (major 1, minor 0): the
\* load never gets past the preamble, and no field is ever stored.
C5_BadPreambleIsFatal ==
    BadPreamble(bytes) =>
        /\ stage \in {"open", "preamble", "fatal"}
        /\ m_fields = <<>>
        /\ stage = "fatal" =>
              err \in {"unable to open file", "too small", "invalid header",
                       "unknown file version"}

\* C5's case: a file of full length with the right magic and another
\* version has ended the load.
C5_Witness ==
    /\ Len(bytes) >= 18 /\ SubSeq(bytes, 1, 12) = Magic /\ bytes[13] = 1 /\ bytes[14] = 1
    /\ stage = "fatal" /\ err = "unknown file version"

\* The preamble of the description is the format's, and the file exists.
GoodPreamble(d) ==
    d.exists /\ d.magic = Magic /\ d.version = <<1, 0>> /\ d.cut >= HeaderLen

\* Where header record i of the description ends in the file (i from 1).
HdrEnd(fs, i) == HeaderLen + RecordsLen(SubSeq(fs, 1, i))

WrittenOffset(d, i) == BlobStart(d.fields) + d.fields[i].rel

WrittenSize(d, i) == type_size(d.fields[i].dtype) * Product(d.fields[i].shape)

\* The payload the writer meant field i to have.
WrittenPayload(d, i) ==
    SubSeq(Written(d), WrittenOffset(d, i) + 1, WrittenOffset(d, i) + WrittenSize(d, i))

\* Record i has a dtype code of 0 or above 11, or its header does not fit in
\* the file, or its payload cannot be read in full from its offset.
BadRecord(d, i) ==
    LET f == d.fields[i]
    IN  \/ f.dtype = 0 \/ f.dtype > 11
        \/ HdrEnd(d.fields, i) > Len(FileBytes(d))
        \/ f.neg
        \/ WrittenSize(d, i) > 0
              /\ WrittenOffset(d, i) + WrittenSize(d, i) > Len(FileBytes(d))

BadRecords(d) == {i \in 1..Len(d.fields) : BadRecord(d, i)}

FirstBad(d) == CHOOSE i \in BadRecords(d) : \A j \in BadRecords(d) : i <= j

\* C6: there is no partial load.  If record i has dtype code 0 or greater
\* than 11, or its header or payload cannot be read in full, the load never
\* completes record i and never returns a Tensor, though records 0..i-1 were
\* parsed; and once it has tried record i it has aborted.
C6_NoPartialLoad ==
    (GoodPreamble(desc) /\ BadRecords(desc) # {}) =>
        /\ stage # "done"
        /\ idx < FirstBad(desc)
        /\ (idx = FirstBad(desc) - 1 /\ stage \notin {"open", "preamble", "record", "payload"})
              => stage = "fatal"

\* The description is one a writer produces: nothing damaged, every dtype
\* valid, every payload inside the file.
WellFormed(d) == GoodPreamble(d) /\ d.cut = Whole /\ BadRecords(d) = {}

\* Field i of the description is in the loaded table as written.
LoadedAsWritten(d, i) ==
    LET f == d.fields[i]
    IN  /\ has_field(m_fields, f.name)
        /\ m_fields[f.name].dtype = f.dtype
        /\ m_fields[f.name].shape = f.shape
        /\ m_fields[f.name].offset = WrittenOffset(d, i)
        /\ m_fields[f.name].data = WrittenPayload(d, i)

\* C7 as stated: for every well-formed tensor file with N field records,
\* after loading, each written field is found under its name with exactly
\* the written dtype, shape and payload bytes.
C7_RoundTripEveryField ==
    (WellFormed(desc) /\ stage = "done") =>
        \A i \in 1..Len(desc.fields) : LoadedAsWritten(desc, i)

\* C7, amended: ... each written field whose name no later record of the
\* file repeats is found under its name with exactly the written dtype,
\* shape and payload bytes.
C7_RoundTripLastOfName ==
    (WellFormed(desc) /\ stage = "done") =>
        \A i \in 1..Len(desc.fields) :
            (\A j \in (i + 1)..Len(desc.fields) : desc.fields[j].name # desc.fields[i].name)
                => LoadedAsWritten(desc, i)

\* C7's case: a file of two fields with different names, one of rank 2, has
\* been loaded.
C7_Witness ==
    /\ WellFormed(desc) /\ stage = "done" /\ Len(desc.fields) = 2
    /\ desc.fields[1].name # desc.fields[2].name
    /\ desc.fields[1].shape = <<1, 2>> /\ desc.fields[1].dtype = UInt16
    /\ Cardinality(DOMAIN m_fields) = 2

\* C8: each field's payload is read from the field's own absolute offset,
\* whatever the stream position is, and after the payload read the stream
\* position is back at the byte just after that field's header record, so
\* that the next record is parsed correctly even when offsets are out of
\* order or overlapping.
C8_PayloadAtOffsetPositionRestored ==
    GoodPreamble(desc) =>
        /\ stage = "record" =>
              /\ pos = HdrEnd(desc.fields, idx)
              /\ idx >= 1 =>
                    LET data == m_fields[desc.fields[idx].name].data
                    IN  data = SubSeq(bytes, WrittenOffset(desc, idx) + 1,
                                      WrittenOffset(desc, idx) + Len(data))
        /\ stage = "payload" =>
              /\ pos = HdrEnd(desc.fields, idx + 1)
              /\ rec.name = desc.fields[idx + 1].name
              /\ rec.dtype = desc.fields[idx + 1].dtype
              /\ Len(rec.shape) = Len(desc.fields[idx + 1].shape)

\* C8's case: two payloads that overlap, the second one starting before the
\* first, have both been read.
C8_Witness ==
    /\ GoodPreamble(desc) /\ stage = "record" /\ idx = 2
    /\ desc.fields[1].rel = 1 /\ desc.fields[2].rel = 0
    /\ WrittenSize(desc, 1) = 2 /\ WrittenSize(desc, 2) = 2
    /\ pos = HdrEnd(desc.fields, 2)

(***************************************************************************)
(* The claims about Sample_f.                                              *)
(***************************************************************************)
Called == result # NotCalled

\* C9: for every variant (dielectric, hair, measured), Sample_f called with
\* a sample filter that contains neither Reflection nor Transmission returns
\* no sample.  (HairBxDF::Sample_f does not read the filter.)
C9_EmptyFilterNoSample ==
    (Called /\ call.filter = {}) => ~result.present

\* C10: DielectricBxDF::Sample_f respects the sample filter in the smooth and
\* in the rough regime: a returned sample carries a reflection flag only if
\* the filter contains Reflection and a transmission flag only if it
\* contains Transmission, and when both masked probabilities are zero no
\* sample is returned.
C10_DielectricRespectsFilter ==
    (Called /\ call.variant = "dielectric") =>
        LET pr == IF Reflection \in call.filter THEN call.R ELSE 0
            pt == IF Transmission \in call.filter THEN Grid - call.R ELSE 0
        IN  /\ result.present =>
                /\ Reflection \in result.flags => Reflection \in call.filter
                /\ Transmission \in result.flags => Transmission \in call.filter
                /\ (Reflection \in result.flags) # (Transmission \in result.flags)
            /\ (pr = 0 /\ pt = 0) => ~result.present

\* C10's case: a rough dielectric asked for transmission only, with uc = 0
\* and a reflectance that is neither 0 nor 1, returned a transmission sample.
C10_Witness ==
    /\ Called /\ call.variant = "dielectric" /\ ~call.smooth
    /\ call.filter = {Transmission} /\ call.uc = 0 /\ call.R = 1
    /\ result.present /\ result.flags = GlossyTransmission

(***************************************************************************)
(* The claims about densities, degenerate directions and transport modes.  *)
(***************************************************************************)

\* C11: density consistency for the dielectric model: in the smooth and in
\* the rough regime, whenever Sample_f returns a sample with direction wi
\* and density pdf, PDF(wo, wi, mode, filter) returns that same pdf.
\* (In the smooth regime PDF returns 0.)
C11_DielectricDensityConsistent ==
    (call.variant = "dielectric" /\ density.taken) =>
        density.num * result.pdfDen = result.pdfNum * density.den

\* C12: the density HairBxDF::Sample_f returns is the mixture over all
\* pMax + 1 lobes, and it is what HairBxDF::PDF evaluates for the same
\* (wo, wi).  (PDF takes the azimuth from atan2(wi.z, wi.y), which is lost
\* when cosTheta_i is 0.)
C12_HairDensityIsPDF ==
    (call.variant = "hair" /\ density.taken) =>
        /\ Frac(result.pdfNum, result.pdfDen) = MixturePDF(call, call.dphi)
        /\ density.num = result.pdfNum
        /\ density.den = result.pdfDen

Evaluated == answer # NotEvaluated

\* wo.z of a call of f.
QueryWoZ(q) == IF q.variant = "measured" THEN q.wo[3] ELSE q.co

\* C13: with wo.z == 0, for every variant, Sample_f returns no sample and f
\* returns the zero spectrum, and no returned weight is non-finite.
C13_DegenerateWoGivesNothing ==
    /\ (Called /\ call.woz = 0) => (~result.present /\ Finite(result.f))
    /\ (Evaluated /\ query.op = "f" /\ QueryWoZ(query) = 0) =>
          answer.w = ZeroSpectrum

\* C14: every sample DielectricBxDF::Sample_f returns in the smooth regime
\* has a density above 0: the reflection branch is taken only when pr > 0
\* and the transmission branch only when pt > 0.
C14_SmoothDensityPositive ==
    (Called /\ call.variant = "dielectric" /\ call.smooth /\ result.present) =>
        LET pr == IF Reflection \in call.filter THEN call.R ELSE 0
            pt == IF Transmission \in call.filter THEN Grid - call.R ELSE 0
        IN  /\ result.pdfNum > 0 /\ result.pdfDen > 0
            /\ Reflection \in result.flags => pr > 0 /\ result.pdfNum = pr
            /\ Transmission \in result.flags => pt > 0 /\ result.pdfNum = pt

\* C14's case: with T = 0 and both lobes allowed, the largest uc still
\* takes the reflection branch.
C14_Witness ==
    /\ Called /\ call.variant = "dielectric" /\ call.smooth
    /\ call.filter = {Reflection, Transmission} /\ call.R = Grid
    /\ call.uc = Grid - 1
    /\ result.present /\ result.flags = SpecularReflection

OtherMode(m) == IF m = "Radiance" THEN "Importance" ELSE "Radiance"

\* Two values of the same call under the two modes: a transmitted value is
\* divided by Sqr(etap) under Radiance only, any other value is the same.
ModeChangesOnlyTransmission(m, w, other) ==
    /\ w.term = other.term /\ w.den = other.den
    /\ IF w.term = "T"
       THEN w.scaled = (m = "Radiance") /\ other.scaled = (m # "Radiance")
       ELSE w.scaled = other.scaled

\* C15: in the dielectric model the transport mode changes only
\* transmission: the transmitted value under Radiance is the Importance
\* value divided by the squared relative index, in smooth Sample_f, rough
\* Sample_f and f alike, while reflection values and every sampled
\* direction, density and flag are the same in both modes.
C15_ModeChangesOnlyTransmission ==
    /\ (Called /\ call.variant = "dielectric") =>
          LET other == DielectricSample_f([call EXCEPT !.mode = OtherMode(call.mode)])
          IN  /\ other.present = result.present
              /\ other.flags = result.flags
              /\ other.pdfNum = result.pdfNum /\ other.pdfDen = result.pdfDen
              /\ other.wiz = result.wiz
              /\ (Transmission \in result.flags) = (result.f.term = "T")
              /\ ModeChangesOnlyTransmission(call.mode, result.f, other.f)
    /\ (Evaluated /\ query.variant = "dielectric" /\ query.op = "f") =>
          ModeChangesOnlyTransmission(query.mode, answer.w,
              DielectricF([query EXCEPT !.mode = OtherMode(query.mode)]))

\* C15's case: a rough transmission sampled under Radiance.
C15_Witness ==
    /\ Called /\ call.variant = "dielectric" /\ ~call.smooth
    /\ call.mode = "Radiance"
    /\ result.present /\ result.flags = GlossyTransmission
    /\ result.f = W("T", -1, TRUE)

\* C16: the pMax + 1 values HairBxDF::ApPDF returns are each non-negative
\* and sum to 1, also when the averaged Ap terms sum to zero.
C16_ApPDFIsADistribution ==
    (Evaluated /\ query.op = "ApPDF") =>
        /\ \A i \in DOMAIN answer.arr :
              ~IsNaN(answer.arr[i]) /\ answer.arr[i].den > 0 /\ answer.arr[i].num >= 0
        /\ \A i \in DOMAIN answer.arr :
              SumTo([j \in DOMAIN answer.arr |-> answer.arr[j].num], pMax + 1)
                  = answer.arr[i].den

\* C17: MeasuredBxDF::f returns the zero spectrum and MeasuredBxDF::PDF
\* returns 0 whenever wo and wi are not in the same hemisphere or wi + wo
\* has zero length, and then no interpolant is consulted.
C17_MeasuredRejectsBadPairs ==
    (Evaluated /\ query.variant = "measured"
        /\ (\/ ~(query.wo[3] * query.wi[3] > 0)
            \/ \A k \in 1..3 : query.wi[k] + query.wo[k] = 0)) =>
        /\ answer.consulted = {}
        /\ query.op = "f" => answer.kind = "spectrum" /\ answer.w = ZeroSpectrum
        /\ query.op = "PDF" => answer.kind = "float" /\ answer.x = ZeroFloat

\* C17's case: f for a wi below the surface and a wo above it, not opposite.
C17_Witness ==
    /\ Evaluated /\ query.variant = "measured" /\ query.op = "f"
    /\ query.wo = <<1, 0, 1>> /\ query.wi = <<0, 0, -1>>
    /\ answer.w = ZeroSpectrum /\ answer.consulted = {}

(***************************************************************************)
(* The claims about isotropy, cached nulls and repeated field names.       *)
(***************************************************************************)

\* C18: a measured resource is marked isotropic exactly when the phi_i grid
\* has at most 2 samples; for a grid of more than 2 samples whose reduction
\* factor is not 1 the build aborts fatally: it returns neither a resource
\* nor null.
C18_IsotropyAndReduction ==
    (CreateRan /\ cfile.loads /\ cres.allocated) =>
        LET n == Dim(cfile.fields["phi_i"], 0)
        IN  /\ cres.isotropic = (n <= 2)
            /\ (n > 2 /\ cfile.reduction # 1) =>
                  cres.kind = "error_exit" /\ cres.built = {}
            /\ (n <= 2 \/ cfile.reduction = 1) => cres.kind = "resource"

\* C18's case: three samples of phi_i and a reduction factor of 2.
C18_Witness ==
    /\ CreateRan /\ cfile = Loaded(GoodTable(3), 2)
    /\ cres.kind = "error_exit" /\ cres.allocated /\ ~cres.isotropic

\* Once an entry holds null it stays, and Create is not run for it again.
NullStaysCached ==
    \A p \in DOMAIN loadedData :
        loadedData[p] = NullPtr =>
            /\ p \in DOMAIN loadedData' /\ loadedData'[p] = NullPtr
            /\ creates'[p] = creates[p]

\* C19: when Create returns null for a path, that null is stored in the
\* cache: every later BRDFDataFromFile call for the path returns null and
\* does not call Create again, even if the file has since been replaced by
\* a valid one.
C19_NullIsCached ==
    /\ [](\A p \in Paths :
            (p \in DOMAIN loadedData /\ loadedData[p] = NullPtr) =>
                /\ creates[p] = 1
                /\ \A i \in DOMAIN got[p] : got[p][i] = NullPtr)
    /\ [][NullStaysCached]_vars

\* C19's case: two calls returned null for a path whose file is by now one
\* that Create accepts.
C19_Witness ==
    \E p \in Paths :
        /\ Len(got[p]) >= 2 /\ got[p][1] = NullPtr /\ got[p][2] = NullPtr
        /\ Create(disk[p]).kind = "resource"
        /\ creates[p] = 1

\* The records of the description that carry the name of record j.
SameName(d, j) == {i \in 1..Len(d.fields) : d.fields[i].name = d.fields[j].name}

\* C20: when two field records of a file carry the same name, the loaded
\* table holds one field under that name, with the dtype, offset, shape and
\* bytes of the later record, so that the number of loaded fields is less
\* than the header's field count.
C20_LaterRecordWins ==
    (GoodPreamble(desc) /\ stage = "done") =>
        \A j \in 1..Len(desc.fields) :
            (Cardinality(SameName(desc, j)) > 1 /\ \A i \in SameName(desc, j) : i <= j) =>
                LET f == m_fields[desc.fields[j].name]
                IN  /\ f.dtype = desc.fields[j].dtype
                    /\ f.shape = desc.fields[j].shape
                    /\ f.offset = WrittenOffset(desc, j)
                    /\ f.data = SubSeq(bytes, WrittenOffset(desc, j) + 1,
                                       WrittenOffset(desc, j) + WrittenSize(desc, j))
                    /\ Cardinality(DOMAIN m_fields) < n_fields

\* C20's case: two records named alike, of different dtype and shape.
C20_Witness ==
    /\ GoodPreamble(desc) /\ stage = "done" /\ Len(desc.fields) = 2
    /\ desc.fields[1].name = desc.fields[2].name
    /\ desc.fields[1].dtype = UInt16 /\ desc.fields[2].dtype = UInt8
    /\ desc.fields[1].shape # desc.fields[2].shape
    /\ Cardinality(DOMAIN m_fields) = 1 /\ n_fields = 2

\* product(shape) * type_size(dtype) of a written field, as the bytes of a
\* number wide enough to hold it.
ExactBytes(f) ==
    TotalBytes(LE(type_size(f.dtype), 1), [j \in 1..Len(f.shape) |-> LE(f.shape[j], SizeBytes)],
               SizeBytes * (Len(f.shape) + 1))

\* C26: the number of payload bytes allocated and read for a field equals
\* product(shape) * type_size(dtype), where type_size of the codes 1..11 is
\* 1, 1, 2, 2, 4, 4, 8, 8, 2, 4, 8 and a field of rank 0 has product 1, for
\* every shape in the header, also one whose product exceeds the range of
\* size_t.
C26_PayloadSizeIsProduct ==
    /\ [d \in 1..11 |-> type_size(d)] = <<1, 1, 2, 2, 4, 4, 8, 8, 2, 4, 8>>
    /\ (GoodPreamble(desc) /\ desc.cut = Whole) =>
          \A j \in 1..idx :
              (\A i \in (j + 1)..idx : desc.fields[i].name # desc.fields[j].name) =>
                  LET f == desc.fields[j]
                  IN  Pad(LE(Len(m_fields[f.name].data), SizeBytes),
                          SizeBytes * (Len(f.shape) + 1)) = ExactBytes(f)

\* C27: once the file has been opened, it is closed exactly once on every
\* path out of the loader: before the fatal exit on each failed check or
\* short read, and at the end of a successful load; and it is not closed
\* while the loader runs.
C27_ClosedExactlyOnce ==
    /\ (desc.exists /\ stage \in {"fatal", "done"}) => closes = 1
    /\ stage \in {"open", "preamble", "record", "payload"} => closes = 0

\* C23: every sample MeasuredBxDF::Sample_f returns has the flags
\* GlossyReflection and a wi on the side of the surface of the caller's wo
\* (wi.z > 0 when wo.z > 0, wi.z < 0 when wo.z <= 0); a candidate whose
\* reflected direction has z <= 0 in the frame of the flipped wo gives no
\* sample.
C23_MeasuredSampleSide ==
    (Called /\ call.variant = "measured") =>
        /\ result.present =>
              /\ result.flags = GlossyReflection
              /\ call.woz > 0 => result.wiz > 0
              /\ call.woz <= 0 => result.wiz < 0
        /\ ~call.wizPos => ~result.present

\* C23's case: a sample for a wo in the surface plane, with wi below the
\* surface.
C23_Witness ==
    /\ Called /\ call.variant = "measured" /\ result.present
    /\ call.woz = 0 /\ result.wiz < 0

\* The pair of a rough dielectric query is one f and PDF return zero for:
\* a cosine is 0, the generalized half vector has no length, or it is
\* backfacing to wo or wi.
Discarded(q) == q.ci = 0 \/ q.co = 0 \/ q.wmZero \/ q.back

\* C24: for the rough dielectric, a returned GlossyReflection sample has wi
\* in the hemisphere of wo; a returned GlossyTransmission sample has a wi
\* that is not in the hemisphere of wo, with wi.z # 0 and a refraction that
\* succeeded.  f and PDF take a pair as a reflection exactly when
\* cosTheta_i * cosTheta_o > 0, and return zero when a cosine is 0, the
\* generalized half vector has zero length, or it is backfacing.
C24_RoughHemispheres ==
    /\ (Called /\ call.variant = "dielectric" /\ ~call.smooth /\ result.present) =>
          /\ result.flags \in {GlossyReflection, GlossyTransmission}
          /\ result.flags = GlossyReflection => call.woz * result.wiz > 0
          /\ result.flags = GlossyTransmission =>
                /\ ~(call.woz * result.wiz > 0)
                /\ result.wiz # 0
                /\ call.valid
    /\ (Evaluated /\ query.variant = "dielectric" /\ ~query.smooth) =>
          /\ Discarded(query) => (answer.w = ZeroSpectrum /\ answer.x = ZeroFloat)
          /\ (~Discarded(query) /\ query.op = "f") =>
                (answer.w.term = "R" <=> query.ci * query.co > 0)
          /\ (~Discarded(query) /\ query.op = "PDF" /\ query.filter = {Reflection, Transmission}) =>
                answer.x = IF query.ci * query.co > 0
                           THEN Frac(query.R, Grid) ELSE Frac(Grid - query.R, Grid)

\* C24's case: f has been asked for a pair on the two sides of the surface
\* whose half vector is backfacing.
C24_Witness ==
    /\ Evaluated /\ query.variant = "dielectric" /\ ~query.smooth /\ query.op = "f"
    /\ query.back /\ query.ci = 1 /\ query.co = -1 /\ ~query.wmZero
    /\ answer.w = ZeroSpectrum

\* The draws of a call of rho for which Sample_f is called, and those that
\* add to the sum.
SampledDraws(x) ==
    {k \in 1..Len(x.draws) : x.form = "hh" => x.draws[k].woz # 0}

Contributing(x) == {k \in SampledDraws(x) : x.draws[k].bs = "good"}

\* C25: the estimators use only Sample_f, once per draw that is not
\* skipped.  The directional form returns the zero spectrum when
\* wo.z == 0, without a call.  In both forms a draw adds to the sum only
\* when Sample_f returned a sample of pdf > 0, and the sum is divided by
\* the number of requested draws, the skipped and rejected ones counted.
C25_RhoCountsEveryDraw ==
    rho.done =>
        IF rho.form = "hd" /\ rho.woz = 0
        THEN rho.value.num = 0 /\ rho.value.den = 1 /\ rho.sampled = 0
        ELSE /\ rho.sampled = Cardinality(SampledDraws(rho))
             /\ rho.value.num = Cardinality(Contributing(rho))
             /\ rho.value.den = Len(rho.draws)

\* C25's case: of two draws of the second form, one was skipped for its
\* wo.z of 0 and the other one added to the sum.
C25_Witness ==
    /\ rho.done /\ rho.form = "hh" /\ Len(rho.draws) = 2
    /\ Cardinality(SampledDraws(rho)) = 1 /\ Cardinality(Contributing(rho)) = 1
    /\ rho.value.den = 2

\* The scale-tilt correction as C21 states it.
StatedTilt(p, thetaO, alpha) ==
    IF p = 0 THEN Tilt(thetaO - ScaleAngle(alpha, 1), TRUE)
    ELSE IF p = 1 THEN Tilt(thetaO + ScaleAngle(alpha, 0), TRUE)
    ELSE IF p = 2 THEN Tilt(thetaO + ScaleAngle(alpha, 2), TRUE)
    ELSE Tilt(thetaO, TRUE)

\* C21: the scale-tilt correction of (sinTheta_o, cosTheta_o) per lobe order
\* is the same function in HairBxDF::f, in HairBxDF::Sample_f (for the
\* drawn lobe and inside its density loop) and in HairBxDF::PDF: order 0
\* uses tilt entry [1] with the negative rotation, order 1 entry [0] and
\* order 2 entry [2] with the positive rotation, higher orders are not
\* tilted, and the tilted cosine is replaced by its absolute value.
C21_TiltIsOneFunction ==
    (used.done /\ lobe.model = "hair") =>
        /\ DOMAIN used.loop = 0..(pMax - 1)
        /\ \A p \in DOMAIN used.loop :
              used.loop[p] = StatedTilt(p, lobe.thetaO, lobe.alpha)
        /\ lobe.op = "Sample_f" =>
              used.drawn = StatedTilt(lobe.p, lobe.thetaO, lobe.alpha)

\* C21's case: Sample_f drew lobe 1 for a wo one degree from the axis of a
\* fibre tilted by two degrees: the tilted cosine is negative, and its
\* absolute value is used.
C21_Witness ==
    /\ used.done /\ lobe.model = "hair" /\ lobe.op = "Sample_f"
    /\ lobe.thetaO = 89 /\ lobe.alpha = 2 /\ lobe.p = 1
    /\ used.drawn.angle = 91 /\ Degrees(used.drawn) = 89

\* C22 as stated: in MorphoBSDF both Sample_f and Pdf call the azimuthal
\* helpers (Phi, Np) with gamma_o in both angle arguments, where the
\* primary hair model passes (gamma_o, gamma_t).
C22_MorphoAzimuthIncidentOnly ==
    (used.done /\ lobe.op \in {"Sample_f", "PDF"}) =>
        /\ used.azimuth # {}
        /\ \A h \in used.azimuth :
              h.args = IF lobe.model = "morpho" THEN <<lobe.gammaO, lobe.gammaO>>
                       ELSE <<lobe.gammaO, lobe.gammaT>>

\* C22, amended: in MorphoBSDF Sample_f calls the azimuthal helpers (Phi,
\* Np) with gamma_o in both angle arguments, where the primary hair model
\* passes (gamma_o, gamma_t); Pdf calls Np with (gamma_o, gamma_t), as
\* the primary hair model does.
C22_MorphoSampleAzimuthIncidentOnly ==
    (used.done /\ lobe.op \in {"Sample_f", "PDF"}) =>
        /\ used.azimuth # {}
        /\ \A h \in used.azimuth :
              h.args = IF lobe.model = "morpho" /\ lobe.op = "Sample_f"
                       THEN <<lobe.gammaO, lobe.gammaO>>
                       ELSE <<lobe.gammaO, lobe.gammaT>>

\* C22's case: MorphoBSDF::Sample_f has drawn a lobe below pMax, for a
\* fibre whose gamma_t differs from gamma_o, and has called Phi and Np.
C22_Witness ==
    /\ used.done /\ lobe.model = "morpho" /\ lobe.op = "Sample_f"
    /\ lobe.gammaO # lobe.gammaT /\ lobe.p < pMax
    /\ {h.helper : h \in used.azimuth} = {"Phi", "Np"}

\* C28: every pair of indices (it, ot) MorphoBSDF reads the table of
\* BRDF values with, in f, Sample_f and Pdf, lies in 0..90, for all unit
\* wo and wi and every lobe order.
C28_TableIndicesInRange ==
    (used.done /\ lobe.model = "morpho") =>
        \A r \in used.reads : r[1] \in 0..90 /\ r[2] \in 0..90

====
